---------------------------- MODULE Spec2Model ----------------------------
(***************************************************************************)
(* tagfs: the tag store (src/lib/db.rs), the entry graph                   *)
(* (src/lib/fs/entries.rs, src/lib/fs/inode_generator.rs) and the FUSE     *)
(* callbacks (src/lib/fs.rs), as one state machine.                        *)
(*                                                                         *)
(* Strings are sequences of one-character strings, so that basename,       *)
(* prefix, REPLACE and LIKE are computed character by character.  An       *)
(* Option<String> is a record [some, v].  A table of the store is the      *)
(* sequence of its rows in rowid order.                                    *)
(***************************************************************************)
EXTENDS Integers, Sequences, FiniteSets, TLC

VARIABLES
    db,        \* Database: the tables Tag, TagMapping, StoredQueries
    entries,   \* Entries: inode_generator, attrs, names
    reply,     \* what the last operation answered (callback reply / Result)
    alive,     \* FALSE once a callback has panicked (the mount process died)
    known,     \* the inodes the kernel holds: the root and what lookup replied
    group_pick \* the row this build of SQLite reads a bare GROUP BY column from

vars == <<db, entries, reply, alive, known, group_pick>>

(***************************************************************************)
(* Bounds of the model.                                                    *)
(***************************************************************************)
MaxMappings == 2     \* rows of TagMapping the explored stores hold at most
MaxRowId == 3        \* largest rowid the explored stores hand out
MaxInode == 6        \* largest inode handed out while the store changes
MaxWalkInode == 10   \* largest inode handed out in the walk of the whole mount
MaxCap == 2          \* largest number of entries a readdir buffer takes
MaxOffset == 3       \* largest readdir offset the kernel passes
MaxQueryInode == 10  \* largest inode handed out while queries are looked up
MaxValueInode == 6   \* largest inode handed out under a tag with values
MaxStored == 2       \* stored queries the explored stores hold at most
MaxStoredInode == 8  \* largest inode handed out under the query directory
MaxReadInode == 6    \* largest inode handed out on the way to a tags file
MaxReadOffset == 5   \* largest offset the kernel reads a tags file at
MaxReadSize == 16    \* largest number of bytes the kernel asks of a tags file
MaxTagsInode == 10   \* largest inode handed out in the walk of "tags"
MaxValueLen == 2     \* longest value printed and parsed back

(***************************************************************************)
(* Strings.                                                                *)
(***************************************************************************)
\* a value computed once and used under a name:  let v = ...;  Op(v)
With(v, Op(_)) == Op(v)

None == [some |-> FALSE, v |-> <<>>]
Some(s) == [some |-> TRUE, v |-> s]

\* the printable ASCII characters, Ascii[i] having code i + 31 (code 96, the
\* grave accent, is spelled out: it cannot be written in a string here)
Ascii == <<" ", "!", "\"", "#", "$", "%", "&", "'", "(", ")", "*", "+",
           ",", "-", ".", "/", "0", "1", "2", "3", "4", "5", "6", "7",
           "8", "9", ":", ";", "<", "=", ">", "?", "@", "A", "B", "C",
           "D", "E", "F", "G", "H", "I", "J", "K", "L", "M", "N", "O",
           "P", "Q", "R", "S", "T", "U", "V", "W", "X", "Y", "Z", "[",
           "\\", "]", "^", "_", "grave", "a", "b", "c", "d", "e", "f", "g",
           "h", "i", "j", "k", "l", "m", "n", "o", "p", "q", "r", "s",
           "t", "u", "v", "w", "x", "y", "z", "{", "|", "}", "~">>

CharCode(c) == 31 + (CHOOSE i \in DOMAIN Ascii : Ascii[i] = c)

\* ASCII case folding, as SQLite's LIKE and NOCASE do it
ToLower(c) ==
    With(CharCode(c), LAMBDA n :
        IF n >= 65 /\ n <= 90 THEN Ascii[n + 32 - 31] ELSE c)

\* fault injection: the NOCASE collation comparing the letters as they are
LowerStr_binary(s) == s

LowerStr(s) == [i \in DOMAIN s |-> ToLower(s[i])]

\* memcmp order of two strings (the BINARY collation): a < b
RECURSIVE StrLess(_, _)
StrLess(a, b) ==
    IF b = <<>> THEN FALSE
    ELSE IF a = <<>> THEN TRUE
    ELSE IF a[1] = b[1] THEN StrLess(Tail(a), Tail(b))
    ELSE CharCode(a[1]) < CharCode(b[1])

DropN(s, n) == IF n >= Len(s) THEN <<>> ELSE SubSeq(s, n + 1, Len(s))
TakeN(s, n) == IF n >= Len(s) THEN s ELSE SubSeq(s, 1, n)

\* str::starts_with / str::strip_prefix
StartsWith(s, p) == Len(p) <= Len(s) /\ SubSeq(s, 1, Len(p)) = p

\* 0-based index of the first occurrence of character c in s, or -1 (str::find)
RECURSIVE FindFrom(_, _, _)
FindFrom(s, c, i) ==
    IF i > Len(s) THEN -1
    ELSE IF s[i] = c THEN i - 1
    ELSE FindFrom(s, c, i + 1)
FindChar(s, c) == FindFrom(s, c, 1)

\* str::replace(from, to) for a one-character pattern
RECURSIVE ReplaceChar(_, _, _)
ReplaceChar(s, c, to) ==
    IF s = <<>> THEN <<>>
    ELSE (IF s[1] = c THEN to ELSE <<s[1]>>) \o ReplaceChar(Tail(s), c, to)

\* SQLite REPLACE(X, Y, Z): every non-overlapping occurrence of Y in X, left
\* to right; X itself when Y is empty.
RECURSIVE SqlReplace(_, _, _)
SqlReplace(x, y, z) ==
    IF y = <<>> \/ x = <<>> THEN x
    ELSE IF StartsWith(x, y) THEN z \o SqlReplace(DropN(x, Len(y)), y, z)
    ELSE <<x[1]>> \o SqlReplace(Tail(x), y, z)

\* SQLite  s LIKE p ESCAPE '\' : % any run, _ any character, \c the character
\* c itself, letters compared without case.
RECURSIVE SqlLike(_, _)
SqlLike(s, p) ==
    IF p = <<>> THEN s = <<>>
    ELSE IF p[1] = "\\" /\ Len(p) >= 2
        THEN s # <<>> /\ ToLower(s[1]) = ToLower(p[2])
             /\ SqlLike(Tail(s), DropN(p, 2))
    ELSE IF p[1] = "%"
        THEN \E k \in 0..Len(s) : SqlLike(DropN(s, k), Tail(p))
    ELSE IF p[1] = "_"
        THEN s # <<>> /\ SqlLike(Tail(s), Tail(p))
    ELSE s # <<>> /\ ToLower(s[1]) = ToLower(p[1]) /\ SqlLike(Tail(s), Tail(p))

\* prefix.replace('%', "\\%").replace('_', "\\_")
EscapeLike(s) == ReplaceChar(ReplaceChar(s, "%", <<"\\", "%">>), "_", <<"\\", "_">>)

\* format!("{n}") of a usize
Digits == <<"0","1","2","3","4","5","6","7","8","9">>
RECURSIVE Decimal(_)
Decimal(n) ==
    IF n < 10 THEN <<Digits[n + 1]>>
    ELSE Decimal(n \div 10) \o <<Digits[(n % 10) + 1]>>

\* the elements of a sequence
Range(s) == {s[i] : i \in DOMAIN s}

\* f with key k set to v (HashMap::insert)
MapPut(f, k, v) == [x \in (DOMAIN f) \cup {k} |-> IF x = k THEN v ELSE f[x]]

\* s without the elements that occurred earlier in it (SELECT DISTINCT)
RECURSIVE Distinct(_)
Distinct(s) ==
    IF s = <<>> THEN <<>>
    ELSE With(Distinct(SubSeq(s, 1, Len(s) - 1)), LAMBDA init :
            IF s[Len(s)] \in Range(init) THEN init
            ELSE Append(init, s[Len(s)]))

(***************************************************************************)
(* The tag store: src/lib/db.rs.                                           *)
(***************************************************************************)
\* get_or_create_db / init: empty tables, the RemoveUnusedTags trigger
EmptyDb == [Tag |-> <<>>, TagMapping |-> <<>>, StoredQueries |-> <<>>]

\* INTEGER PRIMARY KEY without AUTOINCREMENT: one more than the largest
\* rowid in the table, 1 for an empty table.
NextRowId(rows) == IF rows = <<>> THEN 1 ELSE rows[Len(rows)].id + 1

\* the generated column ValueUniqConstraint = COALESCE(Value, 'NULL')
ValueUniqConstraint(value) ==
    IF value.some THEN value.v ELSE <<"N", "U", "L", "L">>

\* Option<TagInfo>: found = FALSE is None
get_tag(d, tag_name) ==
    LET hit == SelectSeq(d.Tag, LAMBDA r : r.name = tag_name)
    IN  IF hit = <<>>
        THEN [found |-> FALSE,
              tag |-> [id |-> 0, name |-> tag_name, takes_value |-> FALSE]]
        ELSE [found |-> TRUE, tag |-> hit[1]]

create_tag(d, tag_name, takes_value) ==
    LET row == [id |-> NextRowId(d.Tag), name |-> tag_name,
                takes_value |-> takes_value]
    IN  [db |-> [d EXCEPT !.Tag = Append(@, row)], tag |-> row]

\* fault injection: UNIQUE(TagID, Value, Path) on the nullable column itself,
\* where a NULL is distinct from every other NULL
UniqueConflict_nullable(rows, tag_id, value, path) ==
    \E i \in DOMAIN rows :
        /\ rows[i].tag_id = tag_id
        /\ rows[i].value.some /\ value.some /\ rows[i].value.v = value.v
        /\ rows[i].path = path

\* the UNIQUE(TagID, ValueUniqConstraint, Path) constraint of TagMapping
UniqueConflict(rows, tag_id, value, path) ==
    \E i \in DOMAIN rows :
        /\ rows[i].tag_id = tag_id
        /\ ValueUniqConstraint(rows[i].value) = ValueUniqConstraint(value)
        /\ rows[i].path = path

\* tag_inner once the tag row `made.tag` is there: the INSERT
InsertMapping(made, path, value, auto) ==
    IF UniqueConflict(made.db.TagMapping, made.tag.id, value, path)
    THEN [ok |-> FALSE, err |-> "already has tag", db |-> made.db]
    ELSE [ok |-> TRUE, err |-> "",
          db |-> [made.db EXCEPT !.TagMapping = Append(@,
                    [id |-> NextRowId(made.db.TagMapping), path |-> path,
                     tag_id |-> made.tag.id, value |-> value, auto |-> auto])]]

\* fault injection: tag_inner without the two takes_value checks
tag_inner_unchecked(d, path, tag_name, value, auto) ==
    With(get_tag(d, tag_name), LAMBDA got :
        IF got.found
        THEN InsertMapping([db |-> d, tag |-> got.tag], path, value, auto)
        ELSE InsertMapping(create_tag(d, tag_name, value.some), path, value,
                           auto))

tag_inner(d, path, tag_name, value, auto) ==
    With(get_tag(d, tag_name), LAMBDA got :
        IF got.found /\ got.tag.takes_value /\ ~value.some
            THEN [ok |-> FALSE, err |-> "takes a value but one was not given",
                  db |-> d]
        ELSE IF got.found /\ ~got.tag.takes_value /\ value.some
            THEN [ok |-> FALSE, err |-> "does not take a value but one was given",
                  db |-> d]
        ELSE IF got.found
            THEN InsertMapping([db |-> d, tag |-> got.tag], path, value, auto)
        ELSE InsertMapping(create_tag(d, tag_name, value.some), path, value,
                           auto))

tag(d, path, tag_name, value) == tag_inner(d, path, tag_name, value, FALSE)

autotag(d, path, tag_name, value) == tag_inner(d, path, tag_name, value, TRUE)

\* fault injection: a store created without the trigger
RemoveUnusedTags_missing(d, old) == d

\* the trigger RemoveUnusedTags, run after the row `old` was deleted
RemoveUnusedTags(d, old) ==
    IF \E i \in DOMAIN d.TagMapping : d.TagMapping[i].tag_id = old.tag_id
    THEN d
    ELSE [d EXCEPT !.Tag = SelectSeq(@, LAMBDA t : t.id # old.tag_id)]

\* DELETE FROM TagMapping of the rows `doomed` (in rowid order): row after
\* row, the trigger after each.
RECURSIVE DeleteMappings(_, _)
DeleteMappings(d, doomed) ==
    IF doomed = <<>> THEN d
    ELSE DeleteMappings(
            RemoveUnusedTags(
                [d EXCEPT !.TagMapping =
                    SelectSeq(@, LAMBDA r : r.id # doomed[1].id)],
                doomed[1]),
            Tail(doomed))

\* SELECT Tag.TagID FROM Tag WHERE Tag.Name = ?
TagIdsNamed(d, tag_name) ==
    {d.Tag[i].id : i \in {j \in DOMAIN d.Tag : d.Tag[j].name = tag_name}}

\* fault injection: untag whose DELETE does not compare TagMapping.Value
untag_whatever_value(d, path, tag_name, value) ==
    LET ids == TagIdsNamed(d, tag_name)
        Doomed(r) == r.path = path /\ r.tag_id \in ids
        doomed == SelectSeq(d.TagMapping, Doomed)
    IN  IF Len(doomed) = 0
        THEN [ok |-> FALSE, err |-> "could not remove tag", db |-> d]
        ELSE [ok |-> TRUE, err |-> "", db |-> DeleteMappings(d, doomed)]

untag(d, path, tag_name, value) ==
    LET ids == TagIdsNamed(d, tag_name)
        Doomed(r) == /\ r.path = path
                     /\ r.tag_id \in ids
                     /\ value.some => (r.value.some /\ r.value.v = value.v)
        doomed == SelectSeq(d.TagMapping, Doomed)
    IN  IF Len(doomed) = 0
        THEN [ok |-> FALSE, err |-> "could not remove tag", db |-> d]
        ELSE [ok |-> TRUE, err |-> "", db |-> DeleteMappings(d, doomed)]

untag_all(d, path) ==
    LET Doomed(r) == r.path = path
        doomed == SelectSeq(d.TagMapping, Doomed)
    IN  IF Len(doomed) = 0
        THEN [ok |-> FALSE, err |-> "could not remove tags", db |-> d]
        ELSE [ok |-> TRUE, err |-> "", db |-> DeleteMappings(d, doomed)]

\* from_edit_repr, after the text was parsed into path_map: a sequence of
\* [path, tags], each tag an [auto, tag, value].  The tables are cleared and
\* every tag is re-inserted; the first failing insert ends the call (the
\* `?` in the loop) with what was inserted so far.
RECURSIVE InsertAll(_, _)
InsertAll(d, todo) ==
    IF todo = <<>> THEN [ok |-> TRUE, err |-> "", db |-> d]
    ELSE With(tag_inner(d, todo[1].path, todo[1].tag, todo[1].value,
                        todo[1].auto),
              LAMBDA r : IF r.ok THEN InsertAll(r.db, Tail(todo)) ELSE r)

RECURSIVE FlattenPathMap(_)
FlattenPathMap(path_map) ==
    IF path_map = <<>> THEN <<>>
    ELSE [i \in DOMAIN path_map[1].tags |->
            [path |-> path_map[1].path, tag |-> path_map[1].tags[i].tag,
             value |-> path_map[1].tags[i].value,
             auto |-> path_map[1].tags[i].auto]]
         \o FlattenPathMap(Tail(path_map))

db_from_edit_repr(d, path_map) ==
    InsertAll([d EXCEPT !.TagMapping = <<>>, !.Tag = <<>>],
              FlattenPathMap(path_map))

\* TagMapping INNER JOIN Tag ON Tag.TagID = TagMapping.TagID: the Tag row
\* of a mapping (FOREIGN KEY(TagID) REFERENCES Tag(TagID))
TagOf(d, row) == d.Tag[CHOOSE i \in DOMAIN d.Tag : d.Tag[i].id = row.tag_id]

HasTagRow(d, row) == \E i \in DOMAIN d.Tag : d.Tag[i].id = row.tag_id

\* Database::tags: the mappings of a path, ORDER BY TagMappingID
tags(d, path) ==
    SelectSeq(d.TagMapping, LAMBDA r : HasTagRow(d, r) /\ r.path = path)

\* fault injection: paths_with_tag with ORDER BY TagMappingID DESC
paths_with_tag_descending(d, tag_name, value) ==
    With(SelectSeq(d.TagMapping, LAMBDA r :
            /\ HasTagRow(d, r)
            /\ TagOf(d, r).name = tag_name
            /\ value.some => (r.value.some /\ r.value.v = value.v)),
         LAMBDA hit :
            [i \in DOMAIN hit |-> [path |-> hit[Len(hit) + 1 - i].path,
                                   id |-> hit[Len(hit) + 1 - i].id]])

\* Database::paths_with_tag: (Path, TagMappingID), ORDER BY TagMappingID.
\* `TagMapping.Value = ?` is never true of a NULL Value.
paths_with_tag(d, tag_name, value) ==
    With(SelectSeq(d.TagMapping, LAMBDA r :
            /\ HasTagRow(d, r)
            /\ TagOf(d, r).name = tag_name
            /\ value.some => (r.value.some /\ r.value.v = value.v)),
         LAMBDA hit :
            [i \in DOMAIN hit |-> [path |-> hit[i].path, id |-> hit[i].id]])

\* Database::values: SELECT DISTINCT Value ... ORDER BY TagMappingID; a NULL
\* Value cannot be read into a String, which makes the whole call an Err.
values(d, tag_name) ==
    With(SelectSeq(d.TagMapping, LAMBDA r :
            HasTagRow(d, r) /\ TagOf(d, r).name = tag_name),
         LAMBDA hit :
            IF \E i \in DOMAIN hit : ~hit[i].value.some
            THEN [ok |-> FALSE, values |-> <<>>]
            ELSE [ok |-> TRUE,
                  values |-> Distinct([i \in DOMAIN hit |-> hit[i].value.v])])

\* Database::all_tags: SELECT Name FROM Tag ORDER BY Tag.TagID
all_tags(d) == [i \in DOMAIN d.Tag |-> d.Tag[i].name]

\* Database::paths_with_prefix
paths_with_prefix(d, prefix) ==
    With(EscapeLike(prefix) \o <<"%">>, LAMBDA pattern :
        With(SelectSeq(d.TagMapping, LAMBDA r : SqlLike(r.path, pattern)),
             LAMBDA hit : Distinct([i \in DOMAIN hit |-> hit[i].path])))

\* fault injection: the mapping id taken for the position of the row
get_path_from_id_by_position(d, tag_mapping_id) ==
    IF tag_mapping_id \in DOMAIN d.TagMapping
    THEN [ok |-> TRUE, path |-> d.TagMapping[tag_mapping_id].path]
    ELSE [ok |-> FALSE, path |-> <<>>]

\* Database::get_path_from_id: query_row fails when no row has the id
get_path_from_id(d, tag_mapping_id) ==
    LET hit == SelectSeq(d.TagMapping, LAMBDA r : r.id = tag_mapping_id)
    IN  IF hit = <<>> THEN [ok |-> FALSE, path |-> <<>>]
        ELSE [ok |-> TRUE, path |-> hit[1].path]

\* The UPDATE of prefix_change, row after row in rowid order; a row whose new
\* Path breaks UNIQUE(TagID, ValueUniqConstraint, Path) against the table as
\* it is at that moment aborts the statement.  i is the next row to visit.
RECURSIVE UpdatePaths(_, _, _, _, _)
UpdatePaths(rows, i, old_prefix, new_prefix, pattern) ==
    IF i > Len(rows) THEN [ok |-> TRUE, rows |-> rows]
    ELSE IF ~SqlLike(rows[i].path, pattern)
        THEN UpdatePaths(rows, i + 1, old_prefix, new_prefix, pattern)
    ELSE With(SqlReplace(rows[i].path, old_prefix, new_prefix), LAMBDA path :
            IF UniqueConflict(SelectSeq(rows, LAMBDA r : r.id # rows[i].id),
                              rows[i].tag_id, rows[i].value, path)
            THEN [ok |-> FALSE, rows |-> rows]
            ELSE UpdatePaths([rows EXCEPT ![i].path = path], i + 1,
                             old_prefix, new_prefix, pattern))

prefix_change(d, old_prefix, new_prefix) ==
    With(UpdatePaths(d.TagMapping, 1, old_prefix, new_prefix,
                     EscapeLike(old_prefix) \o <<"%">>),
         LAMBDA r :
            IF r.ok
            THEN [ok |-> TRUE, err |-> "",
                  db |-> [d EXCEPT !.TagMapping = r.rows]]
            ELSE [ok |-> FALSE, err |-> "UNIQUE constraint failed", db |-> d])

\* Database::stored_queries / create_stored_query / delete_stored_query
stored_queries(d) == d.StoredQueries

create_stored_query(d, name, query) ==
    IF \E i \in DOMAIN d.StoredQueries : d.StoredQueries[i].name = name
    THEN [ok |-> FALSE, err |-> "UNIQUE constraint failed", db |-> d]
    ELSE [ok |-> TRUE, err |-> "",
          db |-> [d EXCEPT !.StoredQueries = Append(@,
                    [id |-> NextRowId(d.StoredQueries), name |-> name,
                     query |-> query])]]

delete_stored_query(d, name) ==
    [ok |-> TRUE, err |-> "",
     deleted |-> \E i \in DOMAIN d.StoredQueries : d.StoredQueries[i].name = name,
     db |-> [d EXCEPT !.StoredQueries = SelectSeq(@, LAMBDA q : q.name # name)]]

(***************************************************************************)
(* The query engine: src/lib/db/query.rs.                                  *)
(***************************************************************************)
\* enum Token; text is the String of a Tag or a Value
Tok(kind) == [kind |-> kind, text |-> <<>>]
TagTok(text) == [kind |-> "Tag", text |-> text]
ValueTok(text) == [kind |-> "Value", text |-> text]

is_comparison_operator(t) ==
    t.kind \in {"StrictEquals", "Equals", "LessThan", "GreaterThan"}

end_of_tag(c) == c \in {"=", "<", ">", " ", "(", ")"}

\* while chars.next_if(|&c| c == ' ').is_some() {}
RECURSIVE SkipSpaces(_, _)
SkipSpaces(s, i) ==
    IF i <= Len(s) /\ s[i] = " " THEN SkipSpaces(s, i + 1) ELSE i

\* the loop that reads a value: the first index not consumed, and buf
RECURSIVE LexValue(_, _, _, _, _)
LexValue(s, i, quoted_literal, escaped, buf) ==
    IF i > Len(s) THEN [buf |-> buf, pos |-> i]
    ELSE LET c == s[i]
             end_of_value == IF quoted_literal THEN c = "\"" /\ ~escaped
                             ELSE ~escaped /\ (c = ")" \/ c = " ")
         IN  IF end_of_value THEN [buf |-> buf, pos |-> i]
             ELSE IF c = "\\" /\ ~escaped
                 THEN LexValue(s, i + 1, quoted_literal, TRUE, buf)
             ELSE LexValue(s, i + 1, quoted_literal, FALSE, Append(buf, c))

\* while let Some(c) = chars.next_if(|&c| !end_of_tag(c))
RECURSIVE TagEnd(_, _)
TagEnd(s, i) ==
    IF i <= Len(s) /\ ~end_of_tag(s[i]) THEN TagEnd(s, i + 1) ELSE i

WordToken(buf) ==
    IF buf = <<"n","o","t">> \/ buf = <<"N","O","T">> THEN Tok("Not")
    ELSE IF buf = <<"a","n","d">> \/ buf = <<"A","N","D">> THEN Tok("And")
    ELSE IF buf = <<"o","r">> \/ buf = <<"O","R">> THEN Tok("Or")
    ELSE TagTok(buf)

RECURSIVE LexFrom(_, _, _)
LexFrom(s, i, tokens) ==
    IF i > Len(s) THEN tokens
    ELSE LET c == s[i]
         IN  IF c = " " THEN LexFrom(s, i + 1, tokens)
             ELSE IF c = "(" THEN LexFrom(s, i + 1, Append(tokens, Tok("LeftParen")))
             ELSE IF c = ")" THEN LexFrom(s, i + 1, Append(tokens, Tok("RightParen")))
             ELSE IF c \in {"=", ">", "<"}
                 THEN LET strict == c = "=" /\ i + 1 <= Len(s) /\ s[i + 1] = "="
                          op == IF c = "=" THEN (IF strict THEN Tok("StrictEquals")
                                                 ELSE Tok("Equals"))
                                ELSE IF c = "<" THEN Tok("LessThan")
                                ELSE Tok("GreaterThan")
                      IN  With(SkipSpaces(s, IF strict THEN i + 2 ELSE i + 1),
                               LAMBDA j1 :
                            With(LexValue(s,
                                    IF j1 <= Len(s) /\ s[j1] = "\"" THEN j1 + 1
                                    ELSE j1,
                                    j1 <= Len(s) /\ s[j1] = "\"", FALSE, <<>>),
                                 LAMBDA v :
                                    LexFrom(s,
                                        IF v.pos <= Len(s) /\ s[v.pos] = "\""
                                        THEN v.pos + 1 ELSE v.pos,
                                        tokens \o <<op, ValueTok(v.buf)>>)))
             ELSE With(TagEnd(s, i + 1), LAMBDA e :
                    LexFrom(s, e, Append(tokens, WordToken(SubSeq(s, i, e - 1)))))

lex_query(query) == LexFrom(query, 1, <<>>)

\* EscapedTagFormatter::fmt, the loop over value.chars()
RECURSIVE EscapeValue(_)
EscapeValue(value) ==
    IF value = <<>> THEN <<>>
    ELSE (IF value[1] \in {"\"", " ", "\\", "(", ")"}
          THEN <<"\\", value[1]>> ELSE <<value[1]>>)
         \o EscapeValue(Tail(value))

\* EscapedTagFormatter::fmt: "{tag}=" and the escaped value, or "{tag}"
EscapedTagFormatter(tag_name, value) ==
    IF value.some THEN tag_name \o <<"=">> \o EscapeValue(value.v)
    ELSE tag_name

\* TagValuePair::from_str
from_str(s) ==
    With(lex_query(s), LAMBDA tokens :
        IF /\ Len(tokens) = 3 /\ tokens[1].kind = "Tag"
           /\ tokens[2].kind = "Equals" /\ tokens[3].kind = "Value"
        THEN [ok |-> TRUE, tag |-> tokens[1].text,
              value |-> Some(tokens[3].text)]
        ELSE IF Len(tokens) = 1 /\ tokens[1].kind = "Tag"
        THEN [ok |-> TRUE, tag |-> tokens[1].text, value |-> None]
        ELSE [ok |-> FALSE, tag |-> <<>>, value |-> None])

(***************************************************************************)
(* The edit representation: src/lib/db/edit_repr.rs.  A text is the        *)
(* sequence of its lines, each without its newline.                        *)
(***************************************************************************)
LINE_SEPARATOR == <<"-", "-", "-", "-", "-", "-", "-", "-">>
AUTOTAG_LINE_SEPARATOR == <<"-", "-", "A", "U", "T", "O", "-", "-">>
COMMENT_PREFIX == <<"/", "/">>

\* Database::dump: the rows in the order of their ids, grouped by path; the
\* paths in the order of their first row (IndexMap)
dump(d) ==
    With(SelectSeq(d.TagMapping, LAMBDA r : HasTagRow(d, r)), LAMBDA rows :
        With(Distinct([i \in DOMAIN rows |-> rows[i].path]), LAMBDA paths :
            [k \in DOMAIN paths |->
                [path |-> paths[k],
                 tags |-> SelectSeq(rows, LAMBDA r : r.path = paths[k])]]))

\* to_edit_repr, the lines of one tag of the block
TagLines(d, rows) ==
    [i \in DOMAIN rows |->
        EscapedTagFormatter(TagOf(d, rows[i]).name, rows[i].value)]

\* to_edit_repr, the lines written for the blocks from block k on
RECURSIVE BlockLines(_, _, _)
BlockLines(d, path_map, k) ==
    IF k > Len(path_map) THEN <<>>
    ELSE With(SelectSeq(path_map[k].tags, LAMBDA t : t.auto), LAMBDA autotags :
            << <<>>, LINE_SEPARATOR, path_map[k].path >>
            \o TagLines(d, SelectSeq(path_map[k].tags, LAMBDA t : ~t.auto))
            \o (IF autotags # <<>> THEN <<AUTOTAG_LINE_SEPARATOR>> ELSE <<>>)
            \o TagLines(d, autotags)
            \o <<LINE_SEPARATOR>>
            \o BlockLines(d, path_map, k + 1))

\* to_edit_repr: the five comment lines of the header (their text after the
\* prefix left out), then the blocks
to_edit_repr(d) ==
    << COMMENT_PREFIX, COMMENT_PREFIX, COMMENT_PREFIX, COMMENT_PREFIX,
       COMMENT_PREFIX >>
    \o BlockLines(d, dump(d), 1)

\* path_map.entry(path).or_default().append(&mut tags)
EntryAppend(path_map, path, block_tags) ==
    IF \E k \in DOMAIN path_map : path_map[k].path = path
    THEN [k \in DOMAIN path_map |->
            IF path_map[k].path = path
            THEN [path_map[k] EXCEPT !.tags = @ \o block_tags]
            ELSE path_map[k]]
    ELSE Append(path_map, [path |-> path, tags |-> block_tags])

\* buf.is_empty() || all whitespace || starts_with(COMMENT_PREFIX)
SkippedLine(buf) ==
    \/ \A i \in DOMAIN buf : buf[i] \in {" ", "\t"}
    \/ StartsWith(buf, COMMENT_PREFIX)

\* edit_repr::from_edit_repr, the loop from line i on.  `st` holds the
\* locals inside_block, path (an Option), auto, tags and path_map.
RECURSIVE ReadLines(_, _, _)
ReadLines(input, i, st) ==
    IF i > Len(input) THEN [ok |-> TRUE, err |-> "", path_map |-> st.path_map]
    ELSE With(input[i], LAMBDA buf :
        IF SkippedLine(buf) THEN ReadLines(input, i + 1, st)
        ELSE IF buf = LINE_SEPARATOR /\ st.inside_block
            THEN ReadLines(input, i + 1,
                    IF st.path.some
                    THEN [st EXCEPT !.inside_block = FALSE, !.path = None,
                                    !.tags = <<>>,
                                    !.path_map = EntryAppend(@, st.path.v,
                                                             st.tags)]
                    ELSE [st EXCEPT !.inside_block = FALSE])
        ELSE IF buf = LINE_SEPARATOR
            THEN ReadLines(input, i + 1, [st EXCEPT !.inside_block = TRUE])
        ELSE IF st.inside_block /\ buf = AUTOTAG_LINE_SEPARATOR
            THEN ReadLines(input, i + 1, [st EXCEPT !.auto = TRUE])
        ELSE IF st.inside_block /\ ~st.path.some
            THEN ReadLines(input, i + 1, [st EXCEPT !.path = Some(buf)])
        ELSE IF st.inside_block
            THEN With(from_str(buf), LAMBDA parsed :
                    IF ~parsed.ok
                    THEN [ok |-> FALSE, err |-> "could not parse tag on line",
                          path_map |-> <<>>]
                    ELSE ReadLines(input, i + 1,
                            [st EXCEPT !.tags = Append(@,
                                [auto |-> st.auto, tag |-> parsed.tag,
                                 value |-> parsed.value])]))
        ELSE ReadLines(input, i + 1, st))

\* edit_repr::from_edit_repr
from_edit_repr(input) ==
    ReadLines(input, 1, [inside_block |-> FALSE, path |-> None,
                         auto |-> FALSE, tags |-> <<>>, path_map |-> <<>>])

\* Database::from_edit_repr of a text: the text is parsed, and only a
\* text that parses clears the store
Database_from_edit_repr(d, input) ==
    With(from_edit_repr(input), LAMBDA parsed :
        IF ~parsed.ok THEN [ok |-> FALSE, err |-> parsed.err, db |-> d]
        ELSE db_from_edit_repr(d, parsed.path_map))

\* to_sql.  The SQL text is the sequence of the fragments pushed onto it,
\* each named after its constant (SQL_PARTIAL_EQ is "EQ", ...); the leading
\* SQL_PARTIAL_SELECT_START and the trailing GROUP BY / ORDER BY are the same
\* for every query and are applied by execute.
RECURSIVE ToSqlFrom(_, _, _, _, _)
ToSqlFrom(tokens, i, case_sensitive, sql, params) ==
    IF i > Len(tokens)
    THEN [ok |-> TRUE, err |-> "", sql |-> sql, params |-> params]
    ELSE LET token == tokens[i]
             bail(msg) == [ok |-> FALSE, err |-> msg, sql |-> sql,
                           params |-> params]
         IN  IF token.kind = "Tag"
             THEN IF i + 1 <= Len(tokens) /\ is_comparison_operator(tokens[i + 1])
                  THEN IF i + 2 <= Len(tokens) /\ tokens[i + 2].kind = "Value"
                       THEN LET op == tokens[i + 1].kind
                                value == tokens[i + 2].text
                                frag == IF op = "StrictEquals"
                                        THEN (IF case_sensitive
                                              THEN "STRICT_EQ_VALUE_CASE_SENS"
                                              ELSE "STRICT_EQ_VALUE")
                                        ELSE IF op = "Equals" THEN "EQ_VALUE"
                                        ELSE IF op = "GreaterThan" THEN "GT_VALUE"
                                        ELSE "LT_VALUE"
                                param == IF op = "Equals" THEN EscapeLike(value)
                                         ELSE value
                            IN  ToSqlFrom(tokens, i + 3, case_sensitive,
                                          Append(sql, frag),
                                          params \o <<token.text, param>>)
                       ELSE bail(CASE tokens[i + 1].kind = "StrictEquals" ->
                                        "expected value after == operator."
                                   [] tokens[i + 1].kind = "Equals" ->
                                        "expected value after = operator."
                                   [] tokens[i + 1].kind = "GreaterThan" ->
                                        "expected value after > operator."
                                   [] OTHER ->
                                        "expected value after < operator.")
                  ELSE ToSqlFrom(tokens, i + 1, case_sensitive,
                                 Append(sql, IF case_sensitive THEN "EQ_CASE_SENS"
                                             ELSE "EQ"),
                                 Append(params, token.text))
             ELSE IF token.kind = "And"
                 THEN ToSqlFrom(tokens, i + 1, case_sensitive, Append(sql, " AND "), params)
             ELSE IF token.kind = "Or"
                 THEN ToSqlFrom(tokens, i + 1, case_sensitive, Append(sql, " OR "), params)
             ELSE IF token.kind = "Not"
                 THEN ToSqlFrom(tokens, i + 1, case_sensitive, Append(sql, " NOT "), params)
             ELSE IF token.kind = "LeftParen"
                 THEN ToSqlFrom(tokens, i + 1, case_sensitive, Append(sql, " ( "), params)
             ELSE IF token.kind = "RightParen"
                 THEN ToSqlFrom(tokens, i + 1, case_sensitive, Append(sql, " ) "), params)
             ELSE IF token.kind = "Value" THEN bail("unexpected value.")
             ELSE bail("unexpected comparison operator.")

\* fault injection: to_sql that writes the name of a leading tag into the SQL
\* text instead of binding it
to_sql_interpolating(tokens, case_sensitive) ==
    With(ToSqlFrom(tokens, 1, case_sensitive, <<>>, <<>>), LAMBDA q :
        IF tokens # <<>> /\ tokens[1].kind = "Tag"
        THEN [q EXCEPT !.sql = <<"Tag.Name = '">> \o tokens[1].text \o <<"'">>
                                \o Tail(@),
                       !.params = Tail(@)]
        ELSE q)

to_sql(tokens, case_sensitive) == ToSqlFrom(tokens, 1, case_sensitive, <<>>, <<>>)

\* the number of ? placeholders of a fragment
Placeholders(frag) ==
    IF frag \in {"EQ", "EQ_CASE_SENS"} THEN 1
    ELSE IF frag \in {" AND ", " OR ", " NOT ", " ( ", " ) "} THEN 0
    ELSE 2

\* The paths the subquery of an atom fragment selects, its placeholders
\* bound to p1 (and p2).  A NULL Value satisfies no comparison.
AtomPaths(d, frag, p1, p2) ==
    LET Name(r) == TagOf(d, r).name
        Hit(r) ==
            /\ HasTagRow(d, r)
            /\ CASE frag = "EQ" -> LowerStr(Name(r)) = LowerStr(p1)
                 [] frag = "EQ_CASE_SENS" -> Name(r) = p1
                 [] frag = "STRICT_EQ_VALUE" ->
                        Name(r) = p1 /\ r.value.some
                        /\ LowerStr(r.value.v) = LowerStr(p2)
                 [] frag = "STRICT_EQ_VALUE_CASE_SENS" ->
                        Name(r) = p1 /\ r.value.some /\ r.value.v = p2
                 [] frag = "EQ_VALUE" ->
                        Name(r) = p1 /\ r.value.some
                        /\ SqlLike(r.value.v, <<"%">> \o p2 \o <<"%">>)
                 [] frag = "LT_VALUE" ->
                        Name(r) = p1 /\ r.value.some /\ StrLess(r.value.v, p2)
                 [] frag = "GT_VALUE" ->
                        Name(r) = p1 /\ r.value.some /\ StrLess(p2, r.value.v)
                 [] OTHER -> FALSE
    IN  {d.TagMapping[i].path : i \in {j \in DOMAIN d.TagMapping : Hit(d.TagMapping[j])}}

\* the fragments with their parameters bound, in order (params_from_iter)
RECURSIVE BindParams(_, _, _)
BindParams(d, sql, params) ==
    IF sql = <<>> THEN <<>>
    ELSE LET n == Placeholders(sql[1])
             item == IF n = 0 THEN [kind |-> sql[1], paths |-> {}]
                     ELSE [kind |-> "atom",
                           paths |-> AtomPaths(d, sql[1], params[1],
                                        IF n = 2 THEN params[2] ELSE <<>>)]
         IN  <<item>> \o BindParams(d, Tail(sql), DropN(params, n))

\* The WHERE expression as SQLite parses it: NOT binds tighter than AND, AND
\* tighter than OR, parentheses group.  Each parser returns the paths for
\* which the expression it read is true, and the next position; ok = FALSE
\* is a syntax error.  U are all paths of TagMapping.
RECURSIVE ParseExpr(_, _, _)
RECURSIVE ParseOrRest(_, _, _, _)
RECURSIVE ParseAnd(_, _, _)
RECURSIVE ParseAndRest(_, _, _, _)
RECURSIVE ParseNot(_, _, _)
RECURSIVE ParsePrimary(_, _, _)
SyntaxError == [ok |-> FALSE, paths |-> {}, pos |-> 0]

\* fault injection: AND and OR read at one precedence, left to right
RECURSIVE ParseOrRest_flat(_, _, _, _)
ParseOrRest_flat(U, it, i, acc) ==
    IF i <= Len(it) /\ it[i].kind \in {" OR ", " AND "}
    THEN With(ParseNot(U, it, i + 1), LAMBDA r :
            IF r.ok
            THEN ParseOrRest_flat(U, it, r.pos,
                    IF it[i].kind = " OR " THEN acc \cup r.paths
                    ELSE acc \cap r.paths)
            ELSE r)
    ELSE [ok |-> TRUE, paths |-> acc, pos |-> i]

ParseExpr(U, it, i) ==
    With(ParseAnd(U, it, i), LAMBDA l :
        IF l.ok THEN ParseOrRest(U, it, l.pos, l.paths) ELSE l)

ParseOrRest(U, it, i, acc) ==
    IF i <= Len(it) /\ it[i].kind = " OR "
    THEN With(ParseAnd(U, it, i + 1), LAMBDA r :
            IF r.ok THEN ParseOrRest(U, it, r.pos, acc \cup r.paths) ELSE r)
    ELSE [ok |-> TRUE, paths |-> acc, pos |-> i]

ParseAnd(U, it, i) ==
    With(ParseNot(U, it, i), LAMBDA l :
        IF l.ok THEN ParseAndRest(U, it, l.pos, l.paths) ELSE l)

ParseAndRest(U, it, i, acc) ==
    IF i <= Len(it) /\ it[i].kind = " AND "
    THEN With(ParseNot(U, it, i + 1), LAMBDA r :
            IF r.ok THEN ParseAndRest(U, it, r.pos, acc \cap r.paths) ELSE r)
    ELSE [ok |-> TRUE, paths |-> acc, pos |-> i]

ParseNot(U, it, i) ==
    IF i <= Len(it) /\ it[i].kind = " NOT "
    THEN With(ParseNot(U, it, i + 1), LAMBDA r :
            IF r.ok THEN [ok |-> TRUE, paths |-> U \ r.paths, pos |-> r.pos]
            ELSE r)
    ELSE ParsePrimary(U, it, i)

ParsePrimary(U, it, i) ==
    IF i > Len(it) THEN SyntaxError
    ELSE IF it[i].kind = "atom"
        THEN [ok |-> TRUE, paths |-> it[i].paths, pos |-> i + 1]
    ELSE IF it[i].kind = " ( "
        THEN With(ParseExpr(U, it, i + 1), LAMBDA r :
                IF r.ok /\ r.pos <= Len(it) /\ it[r.pos].kind = " ) "
                THEN [ok |-> TRUE, paths |-> r.paths, pos |-> r.pos + 1]
                ELSE SyntaxError)
    ELSE SyntaxError

\* the row SQLite reads the bare column TagMappingID of a group from: the
\* documentation leaves it open; `pick` is what the build does ("first" or
\* "last" row of the group in rowid order)
GroupRow(rows, path, pick) ==
    LET grp == SelectSeq(rows, LAMBDA r : r.path = path)
    IN  IF pick = "first" THEN grp[1] ELSE grp[Len(grp)]

\* ascending insertion sort of rows by id (ORDER BY TagMapping.TagMappingID)
RECURSIVE SortById(_)
SortById(rows) ==
    IF rows = <<>> THEN <<>>
    ELSE LET m == CHOOSE i \in DOMAIN rows :
                    \A j \in DOMAIN rows : rows[i].id <= rows[j].id
         IN  <<rows[m]>> \o SortById(SelectSeq(rows, LAMBDA r : r # rows[m]))

\* the rows of the paths of `hit`, one per path (GROUP BY TagMapping.Path),
\* ORDER BY TagMapping.TagMappingID
GroupedRows(hit, pick) ==
    With(Distinct([i \in DOMAIN hit |-> hit[i].path]), LAMBDA groups :
        With(SortById([i \in DOMAIN groups |-> GroupRow(hit, groups[i], pick)]),
             LAMBDA sorted :
                [i \in DOMAIN sorted |->
                    [path |-> sorted[i].path, id |-> sorted[i].id]]))

\* Query::execute: prepare (a syntax error is an Err) and run
execute(d, sql, params, pick) ==
    With(ParseExpr({d.TagMapping[i].path : i \in DOMAIN d.TagMapping},
                   BindParams(d, sql, params), 1),
         LAMBDA r :
            IF ~(r.ok /\ r.pos = Len(sql) + 1)
            THEN [ok |-> FALSE, err |-> "syntax error", rows |-> <<>>]
            ELSE [ok |-> TRUE, err |-> "",
                  rows |-> GroupedRows(
                    SelectSeq(d.TagMapping, LAMBDA m : m.path \in r.paths),
                    pick)])

\* Database::query: Query::from_raw (its error is passed on as it is), then
\* execute (its error gets the context "invalid query.")
query(d, text, case_sensitive, pick) ==
    With(to_sql(lex_query(text), case_sensitive), LAMBDA q :
        IF ~q.ok THEN [ok |-> FALSE, err |-> q.err, rows |-> <<>>]
        ELSE With(execute(d, q.sql, q.params, pick), LAMBDA r :
                IF r.ok THEN r ELSE [r EXCEPT !.err = "invalid query."]))

(***************************************************************************)
(* The inode allocator and the entry graph: src/lib/fs/inode_generator.rs, *)
(* src/lib/fs/entries.rs.                                                  *)
(***************************************************************************)
FUSE_ROOT_ID == 1

QUERY_DIR_NAME == <<"?">>
ALL_TAGS_DIR_NAME == <<"t", "a", "g", "s">>

\* INodeGenerator::new
INodeGenerator_new == [last_value |-> FUSE_ROOT_ID]

\* fault injection: next() that hands out the id without keeping it
next_forgetful(g) == [gen |-> g, ino |-> g.last_value + 1]

\* INodeGenerator::next: the generator after the call, and the id it returns
next(g) == [gen |-> [last_value |-> g.last_value + 1], ino |-> g.last_value + 1]

\* FileAttr: the fields that differ between entries (the timestamps are
\* MOUNT_TIME, uid/gid 1000, nlink 1, blksize 512 for every entry)
FileAttr(ino, kind, size, blocks, perm) ==
    [ino |-> ino, kind |-> kind, size |-> size, blocks |-> blocks, perm |-> perm]

DirAttr(ino) == FileAttr(ino, "Directory", 0, 0, "0o755")

\* enum Entry: one record shape for all variants, the fields a variant does
\* not have left empty
Entry(type, attr, name) ==
    [type |-> type, attr |-> attr, name |-> name, query |-> <<>>,
     value |-> <<>>, tag |-> <<>>, target |-> 0, path |-> <<>>]

\* Entries::new
Entries_new ==
    [inode_generator |-> INodeGenerator_new,
     attrs |-> (FUSE_ROOT_ID :> Entry("Root", DirAttr(FUSE_ROOT_ID), <<"/">>)),
     names |-> <<>>]

\* self.names.get(&parent).and_then(|children| children.get(name)):
\* names maps <<parent, name>> to the child inode
HasChild(e, parent_inode, name) == <<parent_inode, name>> \in DOMAIN e.names

\* the allocation every creating method shares: next(), children.insert,
\* attrs.insert
Insert(e, parent_inode, name, type, kind, size, blocks, perm, fields) ==
    With(next(e.inode_generator), LAMBDA n :
        [e |-> [inode_generator |-> n.gen,
                attrs |-> MapPut(e.attrs, n.ino,
                    [Entry(type, FileAttr(n.ino, kind, size, blocks, perm), name)
                     EXCEPT !.query = fields.query, !.value = fields.value,
                            !.tag = fields.tag, !.target = fields.target,
                            !.path = fields.path]),
                names |-> MapPut(e.names, <<parent_inode, name>>, n.ino)],
         ino |-> n.ino])

NoFields == [query |-> <<>>, value |-> <<>>, tag |-> <<>>, target |-> 0,
             path |-> <<>>]

\* the accessors; `ok = FALSE` is the panic of the accessor
get_attr(e, inode) ==
    IF inode \in DOMAIN e.attrs THEN [ok |-> TRUE, attr |-> e.attrs[inode].attr]
    ELSE [ok |-> FALSE, attr |-> DirAttr(0)]

get_name(e, inode) ==
    IF inode \in DOMAIN e.attrs THEN [ok |-> TRUE, name |-> e.attrs[inode].name]
    ELSE [ok |-> FALSE, name |-> <<>>]

get_type(e, inode) ==
    IF inode \in DOMAIN e.attrs THEN [ok |-> TRUE, type |-> e.attrs[inode].type]
    ELSE [ok |-> FALSE, type |-> ""]

get_parent_tag(e, inode) ==
    IF inode \in DOMAIN e.attrs /\ e.attrs[inode].type = "ValueDir"
    THEN [ok |-> TRUE, tag |-> e.attrs[inode].tag]
    ELSE [ok |-> FALSE, tag |-> <<>>]

get_tag_value(e, inode) ==
    IF inode \in DOMAIN e.attrs /\ e.attrs[inode].type = "ValueDir"
    THEN [ok |-> TRUE, value |-> e.attrs[inode].value]
    ELSE [ok |-> FALSE, value |-> <<>>]

get_query(e, inode) ==
    IF inode \in DOMAIN e.attrs /\ e.attrs[inode].type = "QueryResultDir"
    THEN [ok |-> TRUE, query |-> e.attrs[inode].query]
    ELSE [ok |-> FALSE, query |-> <<>>]

get_path(e, inode) ==
    IF inode \in DOMAIN e.attrs /\ e.attrs[inode].type = "AllTagsDir"
        THEN [ok |-> TRUE, path |-> <<"/">>]
    ELSE IF inode \in DOMAIN e.attrs
            /\ e.attrs[inode].type \in {"AllTagsIntermediate", "AllTagsTerminal"}
        THEN [ok |-> TRUE, path |-> e.attrs[inode].path]
    ELSE [ok |-> FALSE, path |-> <<>>]

\* Option<u64>: None for an unknown inode, a panic for an entry that is no Link
get_link_target(e, inode) ==
    IF inode \notin DOMAIN e.attrs THEN [ok |-> TRUE, some |-> FALSE, target |-> 0]
    ELSE IF e.attrs[inode].type = "Link"
        THEN [ok |-> TRUE, some |-> TRUE, target |-> e.attrs[inode].target]
    ELSE [ok |-> FALSE, some |-> FALSE, target |-> 0]

try_get_inode(e, parent_inode, name) ==
    IF HasChild(e, parent_inode, name)
    THEN [some |-> TRUE, ino |-> e.names[<<parent_inode, name>>]]
    ELSE [some |-> FALSE, ino |-> 0]

\* fault injection: try_get_link_inode without the match on the target
try_get_link_inode_any_target(e, parent_inode, name, tag_mapping_id) ==
    try_get_inode(e, parent_inode, name)

try_get_link_inode(e, parent_inode, name, tag_mapping_id) ==
    With(try_get_inode(e, parent_inode, name), LAMBDA inode :
        IF /\ inode.some
           /\ inode.ino \in DOMAIN e.attrs
           /\ e.attrs[inode.ino].type = "Link"
           /\ e.attrs[inode.ino].target = tag_mapping_id
        THEN inode
        ELSE [some |-> FALSE, ino |-> 0])

get_or_create_query_directory(e) ==
    IF HasChild(e, FUSE_ROOT_ID, QUERY_DIR_NAME)
    THEN [e |-> e, ino |-> e.names[<<FUSE_ROOT_ID, QUERY_DIR_NAME>>]]
    ELSE Insert(e, FUSE_ROOT_ID, QUERY_DIR_NAME, "QueryDir", "Directory",
                0, 0, "0o755", NoFields)

get_or_create_all_tags_dir(e) ==
    IF HasChild(e, FUSE_ROOT_ID, ALL_TAGS_DIR_NAME)
    THEN [e |-> e, ino |-> e.names[<<FUSE_ROOT_ID, ALL_TAGS_DIR_NAME>>]]
    ELSE Insert(e, FUSE_ROOT_ID, ALL_TAGS_DIR_NAME, "AllTagsDir", "Directory",
                0, 0, "0o755", NoFields)

get_or_create_all_tags_intermediate(e, parent_inode, name, path) ==
    IF /\ HasChild(e, parent_inode, name)
       /\ e.attrs[e.names[<<parent_inode, name>>]].attr.kind = "Directory"
    THEN [e |-> e, ino |-> e.names[<<parent_inode, name>>]]
    ELSE Insert(e, parent_inode, name, "AllTagsIntermediate", "Directory",
                0, 0, "0o755", [NoFields EXCEPT !.path = path])

get_or_create_all_tags_terminal(e, parent_inode, name, path) ==
    IF /\ HasChild(e, parent_inode, name)
       /\ e.attrs[e.names[<<parent_inode, name>>]].attr.kind = "RegularFile"
    THEN [e |-> e, ino |-> e.names[<<parent_inode, name>>]]
    ELSE Insert(e, parent_inode, name, "AllTagsTerminal", "RegularFile",
                512, 1, "0o444", [NoFields EXCEPT !.path = path])

\* fault injection: a new entry for every call
get_or_create_query_result_dir_fresh(e, query_text, name) ==
    With(get_or_create_query_directory(e), LAMBDA qd :
        Insert(qd.e, qd.ino, name, "QueryResultDir", "Directory",
               0, 0, "0o755", [NoFields EXCEPT !.query = query_text]))

get_or_create_query_result_dir(e, query_text, name) ==
    With(get_or_create_query_directory(e), LAMBDA qd :
        IF HasChild(qd.e, qd.ino, name)
        THEN [e |-> qd.e, ino |-> qd.e.names[<<qd.ino, name>>]]
        ELSE Insert(qd.e, qd.ino, name, "QueryResultDir", "Directory",
                    0, 0, "0o755", [NoFields EXCEPT !.query = query_text]))

get_or_create_tag_directory(e, parent_inode, name) ==
    IF HasChild(e, parent_inode, name)
    THEN [e |-> e, ino |-> e.names[<<parent_inode, name>>]]
    ELSE Insert(e, parent_inode, name, "TagDir", "Directory",
                0, 0, "0o755", NoFields)

get_or_create_value_directory(e, parent_inode, name, value) ==
    IF HasChild(e, parent_inode, name)
    THEN [e |-> e, ino |-> e.names[<<parent_inode, name>>]]
    ELSE Insert(e, parent_inode, name, "ValueDir", "Directory", 0, 0, "0o755",
                [NoFields EXCEPT !.value = value,
                                 !.tag = get_name(e, parent_inode).name])

create_link(e, parent_inode, name, target, target_len) ==
    Insert(e, parent_inode, name, "Link", "Symlink", target_len, 0, "0o755",
           [NoFields EXCEPT !.target = target])

(***************************************************************************)
(* The filesystem: src/lib/fs.rs.                                          *)
(*                                                                         *)
(* A ReplyDirectory is the record [some, cap, items, oks]: `some` is FALSE *)
(* for the dry run of a preload (reply = None), `cap` is the number of     *)
(* entries the kernel's buffer holds, `items` the entries added so far and *)
(* `oks` the number of times ok() was sent.  A handler returns the entry   *)
(* graph and the reply it leaves, and whether it panicked.                 *)
(***************************************************************************)
NoReply == [some |-> FALSE, cap |-> 0, items |-> <<>>, oks |-> 0]

ReplyDirectory(cap) == [some |-> TRUE, cap |-> cap, items |-> <<>>, oks |-> 0]

\* fault injection: the answer of add (buffer full) ignored
reply_add_unbounded(r, ino, offset, kind, name) ==
    IF ~r.some THEN [r |-> r, done |-> FALSE]
    ELSE [r |-> [r EXCEPT !.items = Append(@, [ino |-> ino, offset |-> offset,
                                               kind |-> kind, name |-> name])],
          done |-> FALSE]

\* reply.as_mut().map_or(false, |reply| reply.add(ino, offset, kind, name)):
\* add returns true, adding nothing, when the buffer is full
reply_add(r, ino, offset, kind, name) ==
    IF ~r.some THEN [r |-> r, done |-> FALSE]
    ELSE IF Len(r.items) >= r.cap THEN [r |-> r, done |-> TRUE]
    ELSE [r |-> [r EXCEPT !.items = Append(@, [ino |-> ino, offset |-> offset,
                                               kind |-> kind, name |-> name])],
          done |-> FALSE]

\* if let Some(reply) = reply { reply.ok() }
reply_ok(r) == IF r.some THEN [r EXCEPT !.oks = @ + 1] ELSE r

\* camino::Utf8Path::file_name: trailing separators and a trailing "." are
\* not components
RECURSIVE TrimPath(_)
TrimPath(p) ==
    IF Len(p) > 1 /\ p[Len(p)] = "/" THEN TrimPath(TakeN(p, Len(p) - 1))
    ELSE IF Len(p) > 1 /\ p[Len(p)] = "." /\ p[Len(p) - 1] = "/"
        THEN TrimPath(TakeN(p, Len(p) - 1))
    ELSE p

RECURSIVE LastSlash(_, _)
LastSlash(p, i) == IF i = 0 \/ p[i] = "/" THEN i ELSE LastSlash(p, i - 1)

\* fn basename inside sanitise_path; `ok = FALSE` is its panic
basename(path) ==
    With(TrimPath(path), LAMBDA p :
        With(DropN(p, LastSlash(p, Len(p))), LAMBDA file_name :
            IF file_name \in {<<>>, <<".">>, <<".", ".">>}
            THEN [ok |-> FALSE, name |-> <<>>]
            ELSE [ok |-> TRUE, name |-> file_name]))

\* siblings.enumerate().any(|(idx, sibling)| idx != path_idx
\*     && basename(sibling) == path_basename), from sibling j on (0-based);
\* any() stops at the first match
RECURSIVE AnyPathSameName(_, _, _, _)
AnyPathSameName(siblings, j, path_idx, path_basename) ==
    IF j >= Len(siblings) THEN "no"
    ELSE IF j = path_idx
        THEN AnyPathSameName(siblings, j + 1, path_idx, path_basename)
    ELSE With(basename(siblings[j + 1]), LAMBDA sibling :
            IF ~sibling.ok THEN "panic"
            ELSE IF sibling.name = path_basename THEN "yes"
            ELSE AnyPathSameName(siblings, j + 1, path_idx, path_basename))

\* fault injection: the index appended to every name
sanitise_path_always_indexed(path, path_idx, siblings) ==
    With(basename(path), LAMBDA path_basename :
        [ok |-> path_basename.ok,
         name |-> path_basename.name \o <<".">> \o Decimal(path_idx)])

sanitise_path(path, path_idx, siblings) ==
    With(basename(path), LAMBDA path_basename :
        IF ~path_basename.ok THEN [ok |-> FALSE, name |-> <<>>]
        ELSE With(AnyPathSameName(siblings, 0, path_idx, path_basename.name),
                  LAMBDA any_path_same_name :
                    IF any_path_same_name = "panic"
                        THEN [ok |-> FALSE, name |-> <<>>]
                    ELSE IF any_path_same_name = "yes"
                        THEN [ok |-> TRUE,
                              name |-> path_basename.name \o <<".">>
                                            \o Decimal(path_idx)]
                    ELSE [ok |-> TRUE, name |-> path_basename.name]))

sanitise_value(path) == ReplaceChar(path, "/", <<"_">>)

\* the result of a handler
Done(e, r, panic) == [e |-> e, r |-> r, panic |-> panic]

\* readdir_root, the loop over static_dirs from index idx
RECURSIVE StaticDirsLoop(_, _, _, _)
StaticDirsLoop(e, static_dirs, idx, r) ==
    IF idx >= Len(static_dirs) THEN [r |-> r, done |-> FALSE]
    ELSE With(reply_add(r, static_dirs[idx + 1], idx + 1, "Directory",
                        get_name(e, static_dirs[idx + 1]).name),
              LAMBDA a : IF a.done THEN a
                         ELSE StaticDirsLoop(e, static_dirs, idx + 1, a.r))

\* readdir_root, the loop over tags.iter().enumerate().skip(..) from index idx
RECURSIVE RootTagsLoop(_, _, _, _, _)
RootTagsLoop(e, tag_names, idx, static_len, r) ==
    IF idx >= Len(tag_names) THEN [e |-> e, r |-> r]
    ELSE With(get_or_create_tag_directory(e, FUSE_ROOT_ID, tag_names[idx + 1]),
              LAMBDA c :
                With(reply_add(r, c.ino, idx + 1 + static_len, "Directory",
                               tag_names[idx + 1]),
                     LAMBDA a :
                        IF a.done THEN [e |-> c.e, r |-> a.r]
                        ELSE RootTagsLoop(c.e, tag_names, idx + 1, static_len,
                                          a.r)))

readdir_root(e, d, offset, r) ==
    With(get_or_create_query_directory(e), LAMBDA q :
      With(get_or_create_all_tags_dir(q.e), LAMBDA t :
        With(IF offset < 2
             THEN StaticDirsLoop(t.e, <<q.ino, t.ino>>, offset, r)
             ELSE [r |-> r, done |-> FALSE],
             LAMBDA s :
                IF s.done THEN Done(t.e, reply_ok(s.r), FALSE)
                ELSE With(RootTagsLoop(t.e, all_tags(d), offset, 2, s.r),
                          LAMBDA l : Done(l.e, reply_ok(l.r), FALSE)))))

\* readdir_files and readdir_query, the loop over the (path, id) children
RECURSIVE LinksLoop(_, _, _, _, _)
LinksLoop(e, children, inode, idx, r) ==
    IF idx >= Len(children) THEN Done(e, r, FALSE)
    ELSE
      With(sanitise_path(children[idx + 1].path, idx,
                         [i \in 1..Len(children) |-> children[i].path]),
           LAMBDA display_name :
        IF ~display_name.ok THEN Done(e, r, TRUE)
        ELSE
          With(try_get_link_inode(e, inode, display_name.name,
                                  children[idx + 1].id),
               LAMBDA found :
            With(IF found.some THEN [e |-> e, ino |-> found.ino]
                 ELSE create_link(e, inode, display_name.name,
                                  children[idx + 1].id,
                                  Len(children[idx + 1].path)),
                 LAMBDA c :
              With(reply_add(r, c.ino, idx + 1, "Symlink", display_name.name),
                   LAMBDA a :
                    IF a.done THEN Done(c.e, a.r, FALSE)
                    ELSE LinksLoop(c.e, children, inode, idx + 1, a.r)))))

readdir_files(e, d, tag_name, value, inode, offset, r) ==
    With(LinksLoop(e, paths_with_tag(d, tag_name, value), inode, offset, r),
         LAMBDA l : IF l.panic THEN l ELSE Done(l.e, reply_ok(l.r), FALSE))

RECURSIVE ValuesLoop(_, _, _, _, _)
ValuesLoop(e, children, inode, idx, r) ==
    IF idx >= Len(children) THEN [e |-> e, r |-> r]
    ELSE
      With(sanitise_value(children[idx + 1]), LAMBDA display_name :
        With(try_get_inode(e, inode, display_name), LAMBDA found :
          With(IF found.some THEN [e |-> e, ino |-> found.ino]
               ELSE get_or_create_value_directory(e, inode, display_name,
                                                  children[idx + 1]),
               LAMBDA c :
            With(reply_add(r, c.ino, idx + 1, "Directory", display_name),
                 LAMBDA a :
                    IF a.done THEN [e |-> c.e, r |-> a.r]
                    ELSE ValuesLoop(c.e, children, inode, idx + 1, a.r)))))

readdir_values(e, d, tag_name, inode, offset, r) ==
    With(values(d, tag_name), LAMBDA children :
        With(IF children.ok
             THEN ValuesLoop(e, children.values, inode, offset, r)
             ELSE [e |-> e, r |-> r],
             LAMBDA l : Done(l.e, reply_ok(l.r), FALSE)))

\* fault injection: a child of Root answered from the entry graph alone
lookup_root_child_unchecked(e, d, parent, name) ==
    With(get_or_create_all_tags_dir(get_or_create_query_directory(e).e),
         LAMBDA a :
            IF HasChild(a.e, parent, name)
            THEN [e |-> a.e, status |-> "entry",
                  attr |-> get_attr(a.e, a.e.names[<<parent, name>>]).attr,
                  some |-> TRUE, ino |-> a.e.names[<<parent, name>>]]
            ELSE [e |-> a.e, status |-> "ENOENT", attr |-> DirAttr(0),
                  some |-> FALSE, ino |-> 0])

lookup_root_child(e, d, parent, name) ==
    IF \E i \in DOMAIN all_tags(d) : all_tags(d)[i] = name
    THEN With(get_or_create_tag_directory(e, parent, name), LAMBDA t :
            [e |-> t.e, status |-> "entry", attr |-> get_attr(t.e, t.ino).attr,
             some |-> TRUE, ino |-> t.ino])
    ELSE
      With(get_or_create_query_directory(e), LAMBDA q :
        With(get_or_create_all_tags_dir(q.e), LAMBDA a :
            IF name = get_name(a.e, q.ino).name
                THEN [e |-> a.e, status |-> "entry",
                      attr |-> get_attr(a.e, q.ino).attr,
                      some |-> TRUE, ino |-> q.ino]
            ELSE IF name = get_name(a.e, a.ino).name
                THEN [e |-> a.e, status |-> "entry",
                      attr |-> get_attr(a.e, a.ino).attr,
                      some |-> TRUE, ino |-> a.ino]
            ELSE [e |-> a.e, status |-> "ENOENT", attr |-> DirAttr(0),
                  some |-> FALSE, ino |-> 0]))

\* `pick` is the row a build of SQLite takes a bare column of GROUP BY from
readdir_query(e, d, pick, inode, offset, r) ==
    With(get_query(e, inode), LAMBDA q :
        IF ~q.ok THEN Done(e, r, TRUE)
        ELSE
          With(query(d, q.query, FALSE, pick), LAMBDA paths :
            With(IF paths.ok THEN LinksLoop(e, paths.rows, inode, offset, r)
                 ELSE Done(e, r, FALSE),
                 LAMBDA l : IF l.panic THEN l
                            ELSE Done(l.e, reply_ok(l.r), FALSE))))

\* the stored queries readdir_query_dir lists (its vec! literal)
MediumWatchQuery ==
    <<"r", "u", "n", "t", "i", "m", "e", " ", ">", " ", "1", "0",
      "0", " ", "a", "n", "d", " ", "r", "u", "n", "t", "i", "m",
      "e", " ", "<", " ", "1", "3", "0", " ", "a", "n", "d", " ",
      "n", "o", "t", " ", "w", "a", "t", "c", "h", "e", "d">>

UnwatchedQuery ==
    <<"n", "o", "t", " ", "w", "a", "t", "c", "h", "e", "d", " ",
      "a", "n", "d", " ", "t", "y", "p", "e", "=", "f", "i", "l",
      "m">>

MediumWatchName ==
    <<"m", "e", "d", "i", "u", "m", "-", "w", "a", "t", "c", "h">>

UnwatchedName ==
    <<"u", "n", "w", "a", "t", "c", "h", "e", "d">>

\* format!("{name} @ [{query}]")
StoredQueryDisplay(name, query_text) ==
    name \o <<" ", "@", " ", "[">> \o query_text \o <<"]">>

HardcodedStoredQueries ==
    << [name |-> StoredQueryDisplay(MediumWatchName, MediumWatchQuery),
        query |-> MediumWatchQuery],
       [name |-> StoredQueryDisplay(UnwatchedName, UnwatchedQuery),
        query |-> UnwatchedQuery] >>

RECURSIVE StoredQueriesLoop(_, _, _, _)
StoredQueriesLoop(e, stored, idx, r) ==
    IF idx >= Len(stored) THEN [e |-> e, r |-> r]
    ELSE
      With(get_or_create_query_result_dir(e, stored[idx + 1].query,
                                          stored[idx + 1].name),
           LAMBDA c :
        With(reply_add(r, c.ino, idx + 1, "Symlink", stored[idx + 1].name),
             LAMBDA a :
                IF a.done THEN [e |-> c.e, r |-> a.r]
                ELSE StoredQueriesLoop(c.e, stored, idx + 1, a.r)))

readdir_query_dir(e, offset, r) ==
    With(StoredQueriesLoop(e, HardcodedStoredQueries, offset, r),
         LAMBDA l : Done(l.e, reply_ok(l.r), FALSE))

\* readdir_all_tags, the first loop: uniq_names (a BTreeMap from name to
\* (path, kind)) after the children from index i (1-based) on were inserted
RECURSIVE UniqNames(_, _, _, _)
UniqNames(children, i, path, uniq_names) ==
    IF i > Len(children) THEN uniq_names
    ELSE
      With(DropN(children[i], Len(path)), LAMBDA child_stripped :
        With(FindChar(child_stripped, "/"), LAMBDA split_point :
            IF split_point >= 0
            THEN UniqNames(children, i + 1, path,
                    MapPut(uniq_names, TakeN(child_stripped, split_point),
                           [path |-> TakeN(children[i],
                                           Len(path) + split_point + 1),
                            kind |-> "Directory"]))
            ELSE UniqNames(children, i + 1, path,
                    MapPut(uniq_names,
                           child_stripped \o <<".", "t", "a", "g", "s">>,
                           [path |-> children[i], kind |-> "RegularFile"]))))

\* the keys of a BTreeMap<Cow<str>, _> in iteration order
RECURSIVE SortedNames(_)
SortedNames(S) ==
    IF S = {} THEN <<>>
    ELSE With(CHOOSE x \in S : \A y \in S \ {x} : StrLess(x, y),
              LAMBDA least : <<least>> \o SortedNames(S \ {least}))

RECURSIVE AllTagsLoop(_, _, _, _, _, _)
AllTagsLoop(e, uniq_names, keys, inode, idx, r) ==
    IF idx >= Len(keys) THEN [e |-> e, r |-> r]
    ELSE
      With(IF uniq_names[keys[idx + 1]].kind = "Directory"
           THEN get_or_create_all_tags_intermediate(e, inode, keys[idx + 1],
                    uniq_names[keys[idx + 1]].path)
           ELSE get_or_create_all_tags_terminal(e, inode, keys[idx + 1],
                    uniq_names[keys[idx + 1]].path),
           LAMBDA c :
        With(reply_add(r, c.ino, idx + 1, uniq_names[keys[idx + 1]].kind,
                       keys[idx + 1]),
             LAMBDA a :
                IF a.done THEN [e |-> c.e, r |-> a.r]
                ELSE AllTagsLoop(c.e, uniq_names, keys, inode, idx + 1, a.r)))

readdir_all_tags(e, d, inode, offset, r) ==
    With(get_path(e, inode), LAMBDA path :
        IF ~path.ok THEN Done(e, r, TRUE)
        ELSE
          With(paths_with_prefix(d, path.path), LAMBDA children :
            IF \E i \in DOMAIN children : ~StartsWith(children[i], path.path)
            THEN Done(e, r, TRUE)
            ELSE
              With(UniqNames(children, 1, path.path, <<>>), LAMBDA uniq_names :
                With(AllTagsLoop(e, uniq_names, SortedNames(DOMAIN uniq_names),
                                 inode, offset, r),
                     LAMBDA l : Done(l.e, reply_ok(l.r), FALSE)))))

\* readdir_helper: nothing is done and nothing is replied for an entry whose
\* attr.kind is not Directory
readdir_helper(e, d, pick, inode, offset, r) ==
    With(get_attr(e, inode), LAMBDA attr :
        IF ~attr.ok THEN Done(e, r, TRUE)
        ELSE IF attr.attr.kind # "Directory" THEN Done(e, r, FALSE)
        ELSE
          With(get_type(e, inode).type, LAMBDA type :
            CASE type = "TagDir" ->
                    With(get_tag(d, get_name(e, inode).name), LAMBDA got :
                        IF ~got.found THEN Done(e, r, TRUE)
                        ELSE IF got.tag.takes_value
                            THEN readdir_values(e, d, got.tag.name, inode,
                                                offset, r)
                        ELSE readdir_files(e, d, got.tag.name, None, inode,
                                           offset, r))
              [] type = "ValueDir" ->
                    readdir_files(e, d, get_parent_tag(e, inode).tag,
                                  Some(get_tag_value(e, inode).value),
                                  inode, offset, r)
              [] type = "QueryDir" -> readdir_query_dir(e, offset, r)
              [] type = "QueryResultDir" ->
                    readdir_query(e, d, pick, inode, offset, r)
              [] type \in {"AllTagsDir", "AllTagsIntermediate"} ->
                    readdir_all_tags(e, d, inode, offset, r)
              [] OTHER -> Done(e, r, TRUE)))

\* Filesystem::lookup.  `status` is the ReplyEntry sent ("none" when the
\* callback panicked before replying), `ino` the inode of the entry replied.
LookupResult(e, status, ino, attr, panic) ==
    [e |-> e, status |-> status, ino |-> ino, attr |-> attr, panic |-> panic]

\* fault injection: lookup without the preload of the child it answers
lookup_no_preload(e, d, pick, parent, name) ==
    With(get_or_create_query_directory(e), LAMBDA qd :
      IF parent = FUSE_ROOT_ID THEN
        With(lookup_root_child(readdir_root(e, d, 0, NoReply).e, d, parent,
                               name),
             LAMBDA c : LookupResult(c.e, c.status, c.ino, c.attr, FALSE))
      ELSE IF parent = qd.ino THEN
        With(get_or_create_query_result_dir(qd.e, name, name), LAMBDA c :
            IF ~query(d, name, FALSE, pick).ok
            THEN LookupResult(c.e, "ENOENT", 0, DirAttr(0), FALSE)
            ELSE LookupResult(c.e, "entry", c.ino, get_attr(c.e, c.ino).attr,
                              FALSE))
      ELSE
        With(try_get_inode(qd.e, parent, name), LAMBDA found :
          IF found.some
          THEN LookupResult(qd.e, "entry", found.ino,
                            get_attr(qd.e, found.ino).attr, FALSE)
          ELSE LookupResult(qd.e, "ENOENT", 0, DirAttr(0), FALSE)))

lookup(e, d, pick, parent, name) ==
    With(get_or_create_query_directory(e), LAMBDA qd :
      IF parent = FUSE_ROOT_ID THEN
        With(readdir_root(e, d, 0, NoReply), LAMBDA pre :
          With(lookup_root_child(pre.e, d, parent, name), LAMBDA c :
            IF c.some
            THEN With(readdir_helper(c.e, d, pick, c.ino, 0, NoReply),
                      LAMBDA h :
                        LookupResult(h.e, c.status, c.ino, c.attr, h.panic))
            ELSE LookupResult(c.e, c.status, 0, c.attr, FALSE)))
      ELSE IF parent = qd.ino THEN
        With(get_or_create_query_result_dir(qd.e, name, name), LAMBDA c :
          With(get_query(c.e, c.ino), LAMBDA q :
            IF ~q.ok THEN LookupResult(c.e, "none", 0, DirAttr(0), TRUE)
            ELSE IF ~query(d, q.query, FALSE, pick).ok
                THEN LookupResult(c.e, "ENOENT", 0, DirAttr(0), FALSE)
            ELSE
              With(readdir_helper(c.e, d, pick, c.ino, 0, NoReply), LAMBDA h :
                IF h.panic THEN LookupResult(h.e, "none", 0, DirAttr(0), TRUE)
                ELSE LookupResult(h.e, "entry", c.ino,
                                  get_attr(c.e, c.ino).attr, FALSE))))
      ELSE
        With(try_get_inode(qd.e, parent, name), LAMBDA found :
          IF found.some THEN
            With(get_attr(qd.e, found.ino), LAMBDA attr :
              With(readdir_helper(qd.e, d, pick, found.ino, 0, NoReply),
                   LAMBDA h :
                IF ~attr.ok \/ h.panic
                    THEN LookupResult(h.e, "none", 0, DirAttr(0), TRUE)
                ELSE LookupResult(h.e, "entry", found.ino, attr.attr, FALSE)))
          ELSE LookupResult(qd.e, "ENOENT", 0, DirAttr(0), FALSE)))

\* Filesystem::readdir
readdir(e, d, pick, inode, offset, r) ==
    IF inode = FUSE_ROOT_ID THEN readdir_root(e, d, offset, r)
    ELSE readdir_helper(e, d, pick, inode, offset, r)

\* Filesystem::readlink: `ok = FALSE` is its panic
readlink(e, d, inode) ==
    With(get_link_target(e, inode), LAMBDA tag_mapping_id :
        IF ~(tag_mapping_id.ok /\ tag_mapping_id.some)
        THEN [ok |-> FALSE, data |-> <<>>]
        ELSE With(get_path_from_id(d, tag_mapping_id.target), LAMBDA target :
                IF target.ok THEN [ok |-> TRUE, data |-> target.path]
                ELSE [ok |-> FALSE, data |-> <<>>]))

\* Filesystem::getattr
getattr(e, inode) == get_attr(e, inode)

\* fault injection: the value left out of the line
SimpleTagFormatter_valueless(d, mapping) ==
    TagOf(d, mapping).name

\* SimpleTagFormatter: "{tag}={value}" or "{tag}"
SimpleTagFormatter(d, mapping) ==
    IF mapping.value.some
    THEN TagOf(d, mapping).name \o <<"=">> \o mapping.value.v
    ELSE TagOf(d, mapping).name

\* read, the loop of writeln!(buf, ..) over the tags from index i (1-based)
RECURSIVE WriteLines(_, _, _, _)
WriteLines(d, mappings, i, buf) ==
    IF i > Len(mappings) THEN buf
    ELSE WriteLines(d, mappings, i + 1,
                    buf \o SimpleTagFormatter(d, mappings[i]) \o <<"\n">>)

\* Filesystem::read.  `status` is "data" for reply.data, "none" for the
\* panic, and "EIO" when the callback returns without using the reply:
\* fuser answers a reply dropped unsent with an I/O error.
read(e, d, inode, offset, size) ==
    IF get_type(e, inode).type # "AllTagsTerminal"
    THEN [status |-> "none", data |-> <<>>, panic |-> TRUE]
    ELSE With(WriteLines(d, tags(d, get_path(e, inode).path), 1, <<>>),
              LAMBDA buf :
                IF offset < Len(buf)
                THEN [status |-> "data", data |-> DropN(buf, offset),
                      panic |-> FALSE]
                ELSE [status |-> "EIO", data |-> <<>>, panic |-> FALSE])

(***************************************************************************)
(* The state machine.  The store is changed by the command line            *)
(* (src/tagfs.rs calling Database), the entry graph by the callbacks the   *)
(* kernel issues on the mount.                                             *)
(***************************************************************************)
\* the paths, tag names and values the operations are explored with
PathA == <<"/", "a", "/", "f">>
PathB == <<"/", "b", "/", "f">>
PathC == <<"/", "c", "/", "f", ".", "1">>

Paths == { PathA, PathB }

TagNames == { <<"t">>, ALL_TAGS_DIR_NAME }

Values == { None, Some(<<"x">>), Some(<<"X">>) }

\* the rename the command line makes while the mount is up
OldPrefix == <<"/", "a">>
NewPrefix == <<"/", "c", "c">>

Prefixes ==
    { << <<"/", "a">>, <<"/", "b">> >>, << <<"/", "b">>, <<"/", "a">> >>,
      << <<"/">>, <<"-">> >> }

\* parsed edit representations: nothing at all; one path with one tag; the
\* same tag once without and once with a value
EditInputs ==
    { <<>>,
      << [path |-> PathA,
          tags |-> << [auto |-> FALSE, tag |-> <<"t">>, value |-> None] >>] >>,
      << [path |-> PathA,
          tags |-> << [auto |-> FALSE, tag |-> <<"t">>, value |-> None],
                      [auto |-> TRUE, tag |-> <<"t">>, value |-> Some(<<"x">>)] >>] >> }

\* the names the kernel asks the tag tree for, by the type of the parent
TreeNames(type) ==
    CASE type = "Root" -> TagNames \cup { QUERY_DIR_NAME, <<"z">> }
      [] type = "TagDir" -> { <<"f">>, <<"f", ".", "0">>, <<"f", ".", "1">>,
                              <<"z">> }
      [] OTHER -> { <<"z">> }

\* the names the kernel asks the whole mount for, by the type of the parent
WalkNames(type) ==
    CASE type = "Root" -> { <<"t">>, <<"u">>, ALL_TAGS_DIR_NAME, QUERY_DIR_NAME,
                            <<"z">> }
      [] type = "TagDir" -> { <<"x">>, <<"f", ".", "0">>, <<"f", ".", "1">>,
                              <<"f", ".", "2">>, <<"z">> }
      [] type = "ValueDir" -> { <<"f">>, <<"z">> }
      [] type = "QueryDir" -> { <<"t">>, <<"t", "=">>,
                                HardcodedStoredQueries[2].name }
      [] type = "QueryResultDir" -> { <<"f", ".", "0">>, <<"f", ".", "1">> }
      [] type = "AllTagsDir" -> { <<"a">>, <<"c">>, <<"z">> }
      [] type = "AllTagsIntermediate" ->
            { <<"f", ".", "t", "a", "g", "s">>,
              <<"f", ".", "1", ".", "t", "a", "g", "s">> }
      [] OTHER -> { <<"z">> }

\* the store after the tag commands `todo`, each a <<path, tag, value>>
RECURSIVE Tagged(_, _)
Tagged(d, todo) ==
    IF todo = <<>> THEN d
    ELSE Tagged(tag(d, todo[1][1], todo[1][2], todo[1][3]).db, Tail(todo))

\* the stores the walk is mounted over: three paths under one tag, two of
\* them with the same basename and one whose basename ends in ".1"; two
\* paths with the same basename under one tag and a tag with a value
WalkStores ==
    { Tagged(EmptyDb, << <<PathC, <<"t">>, None>>, <<PathA, <<"t">>, None>>,
                         <<PathB, <<"t">>, None>> >>),
      Tagged(EmptyDb, << <<PathA, <<"t">>, None>>, <<PathB, <<"t">>, None>>,
                         <<PathA, <<"u">>, Some(<<"x">>)>> >>) }

\* the query texts the command line and the kernel ask with
QLoneTag == <<"t">>
QLoneTagUpper == <<"T">>
QStrictLower == <<"t", "=", "=", "x">>
QStrictUpper == <<"t", " ", "=", "=", " ", "X">>
QSubstring == <<"t", "=", "x">>
QSubstringUpper == <<"t", "=", "X">>
QWildcard == <<"t", "=", "%">>
QLess == <<"t", "<", "x">>
QGreater == <<"t", ">", "x">>
QOtherStrict == <<"u", "=", "=", "y">>
QPrecedence ==
    <<"t", "=", "=", "x", " ", "o", "r", " ", "n", "o", "t", " ", "u", " ",
      "a", "n", "d", " ", "t", "=", "=", "y">>
QParens ==
    <<"(", "t", "=", "=", "x", " ", "o", "r", " ", "n", "o", "t", " ", "u",
      ")", " ", "a", "n", "d", " ", "t", "=", "=", "y">>
QNot == <<"n", "o", "t", " ", "u">>
QNoConnective == <<"t", " ", "u">>
QNoValue == <<"t", "=", "=">>
QNoTag == <<"=", "=", "x">>

QueryTexts ==
    { QLoneTag, QLoneTagUpper, QStrictLower, QStrictUpper, QSubstring,
      QSubstringUpper, QWildcard, QLess, QGreater, QOtherStrict, QPrecedence,
      QParens, QNot, QNoConnective, QNoValue, QNoTag }

\* the texts the kernel looks up in the query directory
LookupTexts == { QLoneTag, QNoConnective, QNoValue, QNoTag }

\* the stores the queries are asked of: a path with two mappings tagged
\* before and after another path; values that differ by case only; one
\* value in lower case only; a tag without values; nothing at all
QueryStores ==
    { Tagged(EmptyDb, << <<PathA, <<"t">>, Some(<<"x">>)>>,
                         <<PathB, <<"t">>, Some(<<"y">>)>>,
                         <<PathA, <<"u">>, None>> >>),
      Tagged(EmptyDb, << <<PathA, <<"t">>, Some(<<"x">>)>>,
                         <<PathB, <<"t">>, Some(<<"X">>)>>,
                         <<PathB, <<"u">>, Some(<<"y">>)>> >>),
      Tagged(EmptyDb, << <<PathA, <<"t">>, Some(<<"x">>)>>,
                         <<PathB, <<"u">>, None>> >>),
      Tagged(EmptyDb, << <<PathA, <<"t">>, None>>, <<PathB, <<"t">>, None>>,
                         <<PathA, <<"u">>, None>> >>),
      EmptyDb }

\* the reply of an operation: which operation, its arguments, what it
\* answered
Reply(op) ==
    [op |-> op, ino |-> 0, name |-> <<>>, offset |-> 0, cap |-> 0,
     status |-> "", err |-> "", items |-> <<>>, oks |-> 0, out |-> 0,
     attr |-> DirAttr(0), data |-> <<>>, flag |-> FALSE, sql |-> <<>>,
     params |-> <<>>, size |-> 0]

StoreReply(op, res) ==
    [Reply(op) EXCEPT !.status = IF res.ok THEN "ok" ELSE "err", !.err = res.err]

\* no request is being served
NoRequest == Reply("")

\* TagFS::new(db) over a store the command line has prepared; `picks` are
\* the builds of SQLite
Mount(stores, picks) ==
    /\ db \in stores
    /\ entries = Entries_new
    /\ reply = NoRequest
    /\ alive = TRUE
    /\ known = {FUSE_ROOT_ID}
    /\ group_pick \in picks

\* a new store is mounted.  No operation of Next executes a query, so
\* group_pick is never read.
Init == Mount({EmptyDb}, {"first"})

WalkInit == Mount(WalkStores, {"first", "last"})

\* The session loop of fuser serves one request at a time, and a command of
\* the command line runs to its end: an operation starts when the answer of
\* the one before it has been handed over.
Idle == alive /\ reply = NoRequest

\* the answer is handed to the kernel (or printed by the command line)
Deliver ==
    /\ alive /\ reply # NoRequest
    /\ reply' = NoRequest
    /\ UNCHANGED <<db, entries, alive, known, group_pick>>

\* the store has room for one more row within the bounds
Room ==
    /\ Len(db.TagMapping) < MaxMappings
    /\ NextRowId(db.TagMapping) <= MaxRowId
    /\ NextRowId(db.Tag) <= MaxRowId

Tag(path, tag_name, value) ==
    /\ Idle /\ Room
    /\ With(tag(db, path, tag_name, value), LAMBDA res :
            db' = res.db /\ reply' = StoreReply("tag", res))
    /\ UNCHANGED <<entries, alive, known, group_pick>>

Autotag(path, tag_name, value) ==
    /\ Idle /\ Room
    /\ With(autotag(db, path, tag_name, value), LAMBDA res :
            db' = res.db /\ reply' = StoreReply("autotag", res))
    /\ UNCHANGED <<entries, alive, known, group_pick>>

Untag(path, tag_name, value) ==
    /\ Idle
    /\ With(untag(db, path, tag_name, value), LAMBDA res :
            db' = res.db /\ reply' = StoreReply("untag", res))
    /\ UNCHANGED <<entries, alive, known, group_pick>>

UntagAll(path) ==
    /\ Idle
    /\ With(untag_all(db, path), LAMBDA res :
            db' = res.db /\ reply' = StoreReply("untag_all", res))
    /\ UNCHANGED <<entries, alive, known, group_pick>>

PrefixChange(old_prefix, new_prefix) ==
    /\ Idle
    /\ With(prefix_change(db, old_prefix, new_prefix), LAMBDA res :
            db' = res.db /\ reply' = StoreReply("prefix_change", res))
    /\ UNCHANGED <<entries, alive, known, group_pick>>

FromEditRepr(path_map) ==
    /\ Idle
    /\ With(db_from_edit_repr(db, path_map), LAMBDA res :
            db' = res.db /\ reply' = StoreReply("from_edit_repr", res))
    /\ UNCHANGED <<entries, alive, known, group_pick>>

\* query_main: Database::query, whose answer it prints; sql and params are
\* what Query::from_raw built on the way
Query(text, case_sensitive) ==
    /\ Idle
    /\ With(query(db, text, case_sensitive, group_pick), LAMBDA res :
        With(to_sql(lex_query(text), case_sensitive), LAMBDA built :
            reply' = [StoreReply("query", res) EXCEPT
                        !.name = text, !.flag = case_sensitive,
                        !.items = res.rows, !.sql = built.sql,
                        !.params = built.params]))
    /\ UNCHANGED <<db, entries, alive, known, group_pick>>

\* the step leaves the entry graph within the bound
InodeRoom(bound) == entries'.inode_generator.last_value <= bound

Lookup(parent, name) ==
    /\ Idle
    /\ parent \in known
    /\ With(lookup(entries, db, group_pick, parent, name), LAMBDA res :
           /\ entries' = res.e
           /\ reply' = [Reply("lookup") EXCEPT !.ino = parent, !.name = name,
                            !.status = res.status, !.out = res.ino,
                            !.attr = res.attr]
           /\ alive' = ~res.panic
           /\ known' = IF res.status = "entry" THEN known \cup {res.ino}
                        ELSE known)
    /\ UNCHANGED <<db, group_pick>>

Readdir(inode, offset, cap) ==
    /\ Idle
    /\ inode \in known
    /\ With(readdir(entries, db, group_pick, inode, offset, ReplyDirectory(cap)),
            LAMBDA res :
           /\ entries' = res.e
           /\ reply' = [Reply("readdir") EXCEPT !.ino = inode,
                            !.offset = offset, !.cap = cap,
                            !.status = IF res.panic THEN "none"
                                       ELSE IF res.r.oks > 0 THEN "ok"
                                       ELSE "none",
                            !.items = res.r.items, !.oks = res.r.oks]
           /\ alive' = ~res.panic)
    /\ UNCHANGED <<db, known, group_pick>>

\* the kernel reads the target of what it was told is a symlink
Readlink(inode) ==
    /\ Idle
    /\ inode \in known
    /\ entries.attrs[inode].attr.kind = "Symlink"
    /\ With(readlink(entries, db, inode), LAMBDA res :
           /\ reply' = [Reply("readlink") EXCEPT !.ino = inode,
                            !.status = IF res.ok THEN "data" ELSE "none",
                            !.data = res.data]
           /\ alive' = res.ok)
    /\ UNCHANGED <<db, entries, known, group_pick>>

Getattr(inode) ==
    /\ Idle
    /\ inode \in known
    /\ With(getattr(entries, inode), LAMBDA res :
           reply' = [Reply("getattr") EXCEPT !.ino = inode, !.status = "attr",
                         !.out = res.attr.ino, !.attr = res.attr])
    /\ UNCHANGED <<db, entries, alive, known, group_pick>>

\* the kernel reads a file it has looked up
Read(inode, offset, size) ==
    /\ Idle
    /\ inode \in known
    /\ entries.attrs[inode].attr.kind = "RegularFile"
    /\ With(read(entries, db, inode, offset, size), LAMBDA res :
           /\ reply' = [Reply("read") EXCEPT !.ino = inode, !.offset = offset,
                            !.size = size, !.status = res.status,
                            !.data = res.data]
           /\ alive' = ~res.panic)
    /\ UNCHANGED <<db, entries, known, group_pick>>

\* the inodes the kernel holds whose entries are of the given types
InodesOf(types) == {i \in known : entries.attrs[i].type \in types}

\* the command line changes the store while the kernel walks the tag tree
Next ==
    \/ \E path \in Paths, tag_name \in TagNames : Tag(path, tag_name, None)
    \/ \E tag_name \in TagNames : Untag(PathA, tag_name, None)
    \/ PrefixChange(OldPrefix, NewPrefix)
    \/ \E parent \in InodesOf({"Root", "TagDir"}) :
        \E name \in TreeNames(entries.attrs[parent].type) :
            Lookup(parent, name) /\ InodeRoom(MaxInode)
    \/ \E inode \in InodesOf({"Root", "TagDir", "Link"}),
          offset \in 0..MaxOffset, cap \in 1..MaxCap :
            Readdir(inode, offset, cap) /\ InodeRoom(MaxInode)
    \/ \E inode \in known : Readlink(inode)
    \/ Deliver

Spec == Init /\ [][Next]_vars

\* the command line alone
StoreNext ==
    \/ \E path \in Paths, tag_name \in TagNames, value \in Values :
            Tag(path, tag_name, value)
    \/ \E tag_name \in TagNames, value \in Values :
            Autotag(PathA, tag_name, value)
    \/ \E path \in Paths, tag_name \in TagNames, value \in Values :
            Untag(path, tag_name, value)
    \/ \E path \in Paths : UntagAll(path)
    \/ \E pair \in Prefixes : PrefixChange(pair[1], pair[2])
    \/ \E path_map \in EditInputs : FromEditRepr(path_map)
    \/ Deliver

SpecStore == Init /\ [][StoreNext]_vars

\* the kernel walks the whole mount over a store that does not change
WalkNext ==
    \/ \E parent \in known :
        \E name \in WalkNames(entries.attrs[parent].type) :
            Lookup(parent, name) /\ InodeRoom(MaxWalkInode)
    \/ \E inode \in known, offset \in 0..MaxOffset, cap \in 1..MaxCap :
            Readdir(inode, offset, cap) /\ InodeRoom(MaxWalkInode)
    \/ \E inode \in known : Readlink(inode)
    \/ \E inode \in known : Getattr(inode)
    \/ Deliver

SpecWalk == WalkInit /\ [][WalkNext]_vars

\* a store that does not change is queried by the command line and through
\* the query directory of the mount
QueryInit == Mount(QueryStores, {"first", "last"})

QueryNext ==
    \/ \E text \in QueryTexts, case_sensitive \in BOOLEAN :
            Query(text, case_sensitive)
    \/ Lookup(FUSE_ROOT_ID, QUERY_DIR_NAME) /\ InodeRoom(MaxQueryInode)
    \/ \E parent \in InodesOf({"QueryDir"}), text \in LookupTexts :
            Lookup(parent, text) /\ InodeRoom(MaxQueryInode)
    \/ Deliver

SpecQuery == QueryInit /\ [][QueryNext]_vars

\* the values and names of a tag directory whose display names collide: two
\* values that differ in "/" versus "_", and a value equal to a basename
SlashValues == { None, Some(<<"/">>), Some(<<"_">>), Some(<<"f">>) }
ValueDirNames == { <<"_">>, <<"f">>, <<"z">> }

\* the command line tags and untags with values while the kernel walks the
\* directory of the tag
ValuesNext ==
    \/ \E path \in Paths, value \in SlashValues : Tag(path, <<"t">>, value)
    \/ \E value \in SlashValues : Untag(PathA, <<"t">>, value)
    \/ Lookup(FUSE_ROOT_ID, <<"t">>) /\ InodeRoom(MaxValueInode)
    \/ \E parent \in InodesOf({"TagDir"}), name \in ValueDirNames :
            Lookup(parent, name) /\ InodeRoom(MaxValueInode)
    \/ \E inode \in InodesOf({"TagDir", "ValueDir"}) :
            Readdir(inode, 0, MaxCap) /\ InodeRoom(MaxValueInode)
    \/ Deliver

SpecValues == Init /\ [][ValuesNext]_vars

\* the names and texts of the queries the library's clients store
StoredNames == { <<"a">>, <<"b">> }
StoredTexts == { QLoneTag, QNot }

\* Database::create_stored_query and delete_stored_query, called by a
\* client of the library while the store is mounted
CreateStoredQuery(name, query_text) ==
    /\ Idle
    /\ Len(db.StoredQueries) < MaxStored
    /\ NextRowId(db.StoredQueries) <= MaxRowId
    /\ With(create_stored_query(db, name, query_text), LAMBDA res :
            db' = res.db /\ reply' = StoreReply("create_stored_query", res))
    /\ UNCHANGED <<entries, alive, known, group_pick>>

DeleteStoredQuery(name) ==
    /\ Idle
    /\ With(delete_stored_query(db, name), LAMBDA res :
            /\ db' = res.db
            /\ reply' = [StoreReply("delete_stored_query", res) EXCEPT
                            !.flag = res.deleted])
    /\ UNCHANGED <<entries, alive, known, group_pick>>

\* queries are stored and deleted while the kernel lists and looks up the
\* query directory
StoredNext ==
    \/ \E name \in StoredNames, query_text \in StoredTexts :
            CreateStoredQuery(name, query_text)
    \/ \E name \in StoredNames : DeleteStoredQuery(name)
    \/ Lookup(FUSE_ROOT_ID, QUERY_DIR_NAME) /\ InodeRoom(MaxStoredInode)
    \/ \E inode \in InodesOf({"QueryDir"}), offset \in 0..1 :
            Readdir(inode, offset, MaxCap) /\ InodeRoom(MaxStoredInode)
    \/ \E parent \in InodesOf({"QueryDir"}),
          name \in { QLoneTag, HardcodedStoredQueries[2].name,
                     StoredQueryDisplay(<<"a">>, QLoneTag) } :
            Lookup(parent, name) /\ InodeRoom(MaxStoredInode)
    \/ Deliver

SpecStored == Init /\ [][StoredNext]_vars

\* the values and the read sizes of the reads of a tags file
ReadValues == { None, Some(<<"x">>) }
ReadSizes == { 1, 4, MaxReadSize }

\* the command line tags and untags a path while the kernel reads the tags
\* file of the path under "tags"
ReadNext ==
    \/ \E tag_name \in TagNames, value \in ReadValues :
            Tag(PathA, tag_name, value)
    \/ \E tag_name \in TagNames, value \in ReadValues :
            Untag(PathA, tag_name, value)
    \/ Lookup(FUSE_ROOT_ID, ALL_TAGS_DIR_NAME) /\ InodeRoom(MaxReadInode)
    \/ \E parent \in InodesOf({"AllTagsDir"}) :
            Lookup(parent, <<"a">>) /\ InodeRoom(MaxReadInode)
    \/ \E parent \in InodesOf({"AllTagsIntermediate"}) :
            Lookup(parent, <<"f", ".", "t", "a", "g", "s">>)
                /\ InodeRoom(MaxReadInode)
    \/ \E inode \in InodesOf({"AllTagsTerminal"}),
          offset \in 0..MaxReadOffset, size \in ReadSizes :
            Read(inode, offset, size)
    \/ Deliver

SpecRead == Init /\ [][ReadNext]_vars

\* the stores the walk of "tags" is mounted over: paths nested two
\* directories deep, and two directories whose names differ in letter case
PathNested == <<"/", "a", "/", "d", "/", "g">>
PathUpper == <<"/", "A", "/", "g">>
TagsStores ==
    { Tagged(EmptyDb, << <<PathA, <<"t">>, None>>, <<PathNested, <<"t">>, None>>,
                         <<PathB, <<"t">>, None>> >>),
      Tagged(EmptyDb, << <<PathA, <<"t">>, None>>,
                         <<PathUpper, <<"t">>, None>> >>) }

\* the names the kernel asks for under "tags", by the type of the parent
TagsNames(type) ==
    CASE type = "Root" -> { ALL_TAGS_DIR_NAME }
      [] type = "AllTagsDir" -> { <<"a">>, <<"A">>, <<"b">>, <<"z">> }
      [] OTHER -> { <<"d">>, <<"f", ".", "t", "a", "g", "s">>,
                    <<"g", ".", "t", "a", "g", "s">> }

TagsInit == Mount(TagsStores, {"first"})

\* the kernel walks "tags" over a store that does not change
TagsNext ==
    \/ \E parent \in InodesOf({"Root", "AllTagsDir", "AllTagsIntermediate"}) :
        \E name \in TagsNames(entries.attrs[parent].type) :
            Lookup(parent, name) /\ InodeRoom(MaxTagsInode)
    \/ \E inode \in InodesOf({"AllTagsDir", "AllTagsIntermediate"}),
          offset \in 0..1, cap \in 1..MaxCap :
            Readdir(inode, offset, cap) /\ InodeRoom(MaxTagsInode)
    \/ \E inode \in InodesOf({"AllTagsTerminal"}), offset \in 0..1 :
            Read(inode, offset, MaxReadSize)
    \/ \E inode \in known : Getattr(inode)
    \/ Deliver

SpecTags == TagsInit /\ [][TagsNext]_vars

\* the characters and the values of the tags printed and parsed back: every
\* string of at most MaxValueLen of the characters the formatter escapes, a
\* letter and "="
ValueChars == { "x", " ", "\"", "\\", "(", ")", "=" }
RECURSIVE StringsUpTo(_)
StringsUpTo(n) ==
    IF n = 0 THEN { <<>> }
    ELSE StringsUpTo(n - 1)
         \cup { Append(s, c) : s \in StringsUpTo(n - 1), c \in ValueChars }
PairValues == { None } \cup { Some(v) : v \in StringsUpTo(MaxValueLen) }

\* edit_main prints a tag of the store with EscapedTagFormatter
Format(tag_name, value) ==
    /\ Idle
    /\ reply' = [Reply("format") EXCEPT
                    !.name = tag_name,
                    !.params = <<value>>,
                    !.data = EscapedTagFormatter(tag_name, value)]
    /\ UNCHANGED <<db, entries, alive, known, group_pick>>

\* and parses the printed text back with TagValuePair::from_str
FromStr ==
    /\ alive /\ reply.op = "format"
    /\ With(from_str(reply.data), LAMBDA parsed :
            reply' = [reply EXCEPT
                        !.op = "from_str",
                        !.status = IF parsed.ok THEN "ok" ELSE "err",
                        !.items = <<[tag |-> parsed.tag,
                                     value |-> parsed.value]>>])
    /\ UNCHANGED <<db, entries, alive, known, group_pick>>

RoundTripNext ==
    \/ \E tag_name \in TagNames, value \in PairValues : Format(tag_name, value)
    \/ FromStr
    \/ Deliver

SpecRoundTrip == Init /\ [][RoundTripNext]_vars

\* the bare words a query is written with: the reserved words in every
\* letter case, and words that are not reserved
CaseVariants(w) ==
    { s \in [DOMAIN w -> { "a", "n", "d", "o", "r", "t",
                           "A", "N", "D", "O", "R", "T" }] :
        LowerStr(s) = w }
Words ==
    CaseVariants(<<"a", "n", "d">>) \cup CaseVariants(<<"o", "r">>)
        \cup CaseVariants(<<"n", "o", "t">>)
        \cup { <<"t">>, <<"a", "n">>, <<"a", "n", "d", "y">>, <<"n", "o", "r">> }

\* Query::from_raw lexes the text of a query of two bare words
Lex(first, second) ==
    /\ Idle
    /\ reply' = [Reply("lex") EXCEPT
                    !.name = first \o <<" ">> \o second,
                    !.params = <<first, second>>,
                    !.items = lex_query(first \o <<" ">> \o second)]
    /\ UNCHANGED <<db, entries, alive, known, group_pick>>

LexNext ==
    \/ \E first \in Words, second \in Words : Lex(first, second)
    \/ Deliver

SpecLex == Init /\ [][LexNext]_vars

\* The edit command (tagfs.rs, edit_main): the store is printed, the text
\* goes through the editor, and the text that comes back is ingested.
\* Texts an editor hands back that the store did not print:
EditTexts ==
    { << LINE_SEPARATOR, PathA, <<"t">>, LINE_SEPARATOR >>,
      << LINE_SEPARATOR, PathA, <<"t", " ", "t">>, LINE_SEPARATOR >>,
      << LINE_SEPARATOR, PathA, AUTOTAG_LINE_SEPARATOR, <<"t">>, LINE_SEPARATOR,
         <<>>, LINE_SEPARATOR, PathB, <<"t", "=", "x">>, LINE_SEPARATOR >> }

\* Database::to_edit_repr: the text is the answer
ToEditRepr ==
    /\ Idle
    /\ reply' = [Reply("to_edit_repr") EXCEPT !.status = "ok",
                                              !.items = to_edit_repr(db)]
    /\ UNCHANGED <<db, entries, alive, known, group_pick>>

\* Database::from_edit_repr of a text; `flag` tells that the text is the
\* one the store printed, unmodified
Edit(input) ==
    /\ Idle
    /\ With(Database_from_edit_repr(db, input), LAMBDA res :
            /\ db' = res.db
            /\ reply' = [StoreReply("edit", res) EXCEPT
                            !.items = input, !.flag = input = to_edit_repr(db)])
    /\ UNCHANGED <<entries, alive, known, group_pick>>

EditNext ==
    \/ \E path \in Paths, value \in {None, Some(<<"x">>)} :
            Tag(path, <<"t">>, value)
    \/ \E path \in Paths, value \in {None, Some(<<"x">>)} :
            Autotag(path, <<"t">>, value)
    \/ \E path \in Paths : UntagAll(path)
    \/ ToEditRepr
    \/ Edit(to_edit_repr(db))
    \/ \E input \in EditTexts : Edit(input)
    \/ Deliver

SpecEdit == Init /\ [][EditNext]_vars

(***************************************************************************)
(* Properties of the store, checked under SpecStore.                       *)
(***************************************************************************)
\* the names of the tags the rows of the store mention
NamesIn(d) == {d.Tag[i].name : i \in DOMAIN d.Tag}

\* the mappings of the tag named n
MappingsNamed(d, n) ==
    SelectSeq(d.TagMapping, LAMBDA r : HasTagRow(d, r) /\ TagOf(d, r).name = n)

\* every mapping of a tag has a value, or none has; and the Tag row says which
TakesValueSymmetry(d) ==
    \A i \in DOMAIN d.Tag :
        \A j \in DOMAIN d.TagMapping :
            d.TagMapping[j].tag_id = d.Tag[i].id
                => d.TagMapping[j].value.some = d.Tag[i].takes_value

\* a tag() that was refused for its value left the store as it was
RefusedTagChangesNothing ==
    (/\ reply'.op = "tag"
     /\ reply'.err \in {"takes a value but one was not given",
                        "does not take a value but one was given"})
        => db' = db

\* a tag that a command keeps, keeps its mode; from_edit_repr keeps no tag:
\* it removes every mapping before it inserts
ModeKept ==
    reply'.op # "from_edit_repr"
        => \A i \in DOMAIN db.Tag, j \in DOMAIN db'.Tag :
                db.Tag[i].name = db'.Tag[j].name
                    => db.Tag[i].takes_value = db'.Tag[j].takes_value

\* C9: in every store state reachable by tag, autotag, untag, untag_all,
\* prefix_change and from_edit_repr each tag has a value on all of its
\* mappings or on none; a tag() call refused because the value does not fit
\* the tag's mode leaves the store unchanged; and the mode of a tag changes
\* only once all of its mappings were removed.
C9_TakesValueSymmetry ==
    /\ [](TakesValueSymmetry(db))
    /\ [][RefusedTagChangesNothing /\ ModeKept]_vars

\* a tag() was refused for its value while the tag has a mapping
C9_Witness ==
    /\ reply.op = "tag"
    /\ reply.err = "takes a value but one was not given"
    /\ Len(db.TagMapping) > 0

\* C10: in every reachable store state the Tag row of t exists (get_tag
\* finds it, all_tags lists it) iff at least one mapping of t exists; so it
\* is gone right after the untag or untag_all that removed the last mapping
\* of t, and no Tag row exists without a mapping.
C10_OrphanElimination ==
    /\ \A i \in DOMAIN db.Tag :
            \E j \in DOMAIN db.TagMapping : db.TagMapping[j].tag_id = db.Tag[i].id
    /\ \A j \in DOMAIN db.TagMapping : HasTagRow(db, db.TagMapping[j])
    /\ \A n \in TagNames \cup NamesIn(db) :
            /\ get_tag(db, n).found <=> Len(MappingsNamed(db, n)) > 0
            /\ n \in Range(all_tags(db)) <=> Len(MappingsNamed(db, n)) > 0

\* an untag has just removed the last mapping of "t" while another tag stays
C10_Witness ==
    /\ reply.op \in {"untag", "untag_all"}
    /\ reply.status = "ok"
    /\ ~get_tag(db, <<"t">>).found
    /\ Len(db.TagMapping) > 0

(***************************************************************************)
(* Properties of the mount while the store changes, checked under Spec.    *)
(***************************************************************************)
\* the inode map holds exactly the ids handed out so far, each entry under
\* its own id, Root alone under FUSE_ROOT_ID, and the child index names
\* only ids handed out
InodesUnique(e) ==
    /\ DOMAIN e.attrs = FUSE_ROOT_ID..e.inode_generator.last_value
    /\ \A i \in DOMAIN e.attrs : e.attrs[i].attr.ino = i
    /\ \A i \in DOMAIN e.attrs : e.attrs[i].type = "Root" <=> i = FUSE_ROOT_ID
    /\ \A k \in DOMAIN e.names :
            e.names[k] \in DOMAIN e.attrs /\ e.names[k] # FUSE_ROOT_ID

\* a step hands out only ids above every id handed out before, and the
\* entry of an id handed out stays the entry of that id
AllocatedOnce ==
    /\ \A i \in DOMAIN entries.attrs :
            i \in DOMAIN entries'.attrs /\ entries'.attrs[i] = entries.attrs[i]
    /\ \A i \in DOMAIN entries'.attrs \ DOMAIN entries.attrs :
            i > entries.inode_generator.last_value

\* C1: the ids the allocator hands out are FUSE_ROOT_ID + 1, + 2, ... in
\* this order and never FUSE_ROOT_ID; after any lookups, readdirs and store
\* changes no two entries share an id, each entry's attr.ino is its key, and
\* an id once handed out is never handed out again.
C1_InodeUniqueness ==
    /\ [](InodesUnique(entries))
    /\ [][AllocatedOnce]_vars

\* links were made, the store has changed since, and more entries were made
C1_Witness ==
    /\ entries.inode_generator.last_value >= FUSE_ROOT_ID + 4
    /\ \E i \in DOMAIN entries.attrs :
            /\ entries.attrs[i].type = "Link"
            /\ i < entries.inode_generator.last_value
            /\ \A j \in DOMAIN db.TagMapping :
                    db.TagMapping[j].id # entries.attrs[i].target

\* the paths the store holds for a mapping id (TagMappingID is the key)
StorePaths(d, id) ==
    {d.TagMapping[j].path : j \in {k \in DOMAIN d.TagMapping :
                                        d.TagMapping[k].id = id}}

\* readlink answered with the path the store holds for the link's mapping
ReadlinkCurrent ==
    (reply.op = "readlink" /\ StorePaths(db, entries.attrs[reply.ino].target) # {})
        => /\ reply.status = "data"
           /\ StorePaths(db, entries.attrs[reply.ino].target) = {reply.data}

\* after prefix_change(OldPrefix, NewPrefix) readlink on a link made before,
\* whose mapping's path began with OldPrefix, gives the path under NewPrefix
RenameSeen ==
    (reply'.op = "prefix_change" /\ reply'.status = "ok")
        => \A i \in DOMAIN entries.attrs, j \in DOMAIN db.TagMapping :
            (/\ entries.attrs[i].type = "Link"
             /\ db.TagMapping[j].id = entries.attrs[i].target
             /\ StartsWith(db.TagMapping[j].path, OldPrefix))
                => readlink(entries', db', i) =
                    [ok |-> TRUE,
                     data |-> NewPrefix \o DropN(db.TagMapping[j].path,
                                                 Len(OldPrefix))]

\* C2: after prefix_change(old, new), readlink on every link materialised
\* before it whose mapping's path began with old returns the new path, with
\* no lookup or readdir in between; readlink always returns the path the
\* store holds at that time for the link's mapping id.
C2_ReadlinkFreshness ==
    /\ [](ReadlinkCurrent)
    /\ [][RenameSeen]_vars

\* readlink has answered with a path under NewPrefix for a link that was
\* made while the path was under OldPrefix (its size is the length of the
\* path it was made for)
C2_Witness ==
    /\ reply.op = "readlink"
    /\ reply.status = "data"
    /\ StartsWith(reply.data, NewPrefix)
    /\ entries.attrs[reply.ino].attr.size = Len(PathA)

\* C4: lookup(ROOT, name) succeeds iff name is the name of a tag the store
\* holds at the time of the call, or "?", or "tags"; it answers the QueryDir
\* for "?", the AllTagsDir for "tags" and a TagDir for every other tag; in
\* every other case it replies ENOENT, also for a tag whose TagDir was
\* materialised earlier and whose last mapping has been removed since.
C4_LookupRoot ==
    (reply.op = "lookup" /\ reply.ino = FUSE_ROOT_ID)
        => /\ reply.status = "entry"
                <=> reply.name \in NamesIn(db) \cup {QUERY_DIR_NAME,
                                                     ALL_TAGS_DIR_NAME}
           /\ reply.status # "entry" => reply.status = "ENOENT"
           /\ reply.status = "entry"
                => /\ reply.attr = entries.attrs[reply.out].attr
                   /\ entries.attrs[reply.out].name = reply.name
                   /\ entries.attrs[reply.out].type =
                        IF reply.name = QUERY_DIR_NAME THEN "QueryDir"
                        ELSE IF reply.name = ALL_TAGS_DIR_NAME THEN "AllTagsDir"
                        ELSE "TagDir"

\* ENOENT for a tag whose TagDir is in the entry graph
C4_Witness ==
    /\ reply.op = "lookup" /\ reply.ino = FUSE_ROOT_ID
    /\ reply.status = "ENOENT"
    /\ HasChild(entries, FUSE_ROOT_ID, reply.name)
    /\ entries.attrs[entries.names[<<FUSE_ROOT_ID, reply.name>>]].type = "TagDir"

\* the name and next-offset of the items of a reply
Listed(items) ==
    [j \in DOMAIN items |-> [name |-> items[j].name, offset |-> items[j].offset]]

\* the items at positions k, k+1, ... of `flat`, as many as the buffer holds
Window(flat, k, cap) ==
    [j \in 1..(IF Len(flat) - k > cap THEN cap
               ELSE IF Len(flat) - k > 0 THEN Len(flat) - k ELSE 0) |->
        [name |-> flat[k + j], offset |-> k + j]]

\* C5: readdir on Root with offset k yields the entries at positions k,
\* k+1, ... of ["?", "tags", tag_1, ..., tag_n] (tags in store order), each
\* with its position + 1 as next-offset, none skipped and none repeated.
C5_RootWindow ==
    (reply.op = "readdir" /\ reply.ino = FUSE_ROOT_ID /\ reply.status = "ok")
        => Listed(reply.items) =
            Window(<<QUERY_DIR_NAME, ALL_TAGS_DIR_NAME>> \o all_tags(db),
                   reply.offset, reply.cap)

\* C7: every readdir that returns completes with exactly one ok(), also on
\* a Link or an AllTagsTerminal, whose listing is empty.
C7_ReaddirOneOk ==
    (reply.op = "readdir" /\ alive) => reply.status = "ok" /\ reply.oks = 1

(***************************************************************************)
(* Properties of a walk over an unchanged store, checked under SpecWalk.   *)
(***************************************************************************)
\* what readdir(inode, 0) lists against the store of this state, the buffer
\* taking every item
WholeListing(inode) ==
    readdir(entries, db, group_pick, inode, 0, ReplyDirectory(MaxWalkInode))

\* name resolves under parent: the child index holds it and lookup answers
\* with that entry
Resolvable(parent, name) ==
    /\ HasChild(entries, parent, name)
    /\ With(lookup(entries, db, group_pick, parent, name), LAMBDA res :
            /\ res.status = "entry"
            /\ res.ino = entries.names[<<parent, name>>])

\* C3: whenever lookup(parent, name) succeeds with a directory inode X,
\* every name that readdir(X, 0) would list against the current store is
\* already resolvable in the entry graph; so lookups alone, without any
\* readdir, resolve every entry under a tag, a value, a query and "tags".
C3_OneLevelPreload ==
    (/\ reply.op = "lookup"
     /\ reply.status = "entry"
     /\ reply.attr.kind = "Directory")
        => With(WholeListing(reply.out), LAMBDA listing :
                /\ ~listing.panic
                /\ \A j \in DOMAIN listing.r.items :
                        Resolvable(reply.out, listing.r.items[j].name))

\* lookup has resolved a link under a value directory, which lists it
C3_Witness ==
    /\ reply.op = "lookup"
    /\ reply.status = "entry"
    /\ reply.attr.kind = "Symlink"
    /\ entries.attrs[reply.ino].type = "ValueDir"
    /\ Len(WholeListing(reply.ino).r.items) > 0

\* C6: readdir(ino, k) on a TagDir, ValueDir, QueryDir, QueryResultDir,
\* AllTagsDir or AllTagsIntermediate appends the items at positions k, k+1,
\* ... of the directory's listing, each with its position + 1 as
\* next-offset, and stops at the first item the buffer has no room for; so
\* paging with the offsets returned lists every item once.
C6_DirWindow ==
    (reply.op = "readdir" /\ reply.ino # FUSE_ROOT_ID /\ reply.status = "ok")
        => With(WholeListing(reply.ino), LAMBDA listing :
                /\ ~listing.panic
                /\ [j \in DOMAIN reply.items |->
                        [name |-> reply.items[j].name,
                         offset |-> reply.items[j].offset,
                         kind |-> reply.items[j].kind]]
                    = [j \in 1..(IF Len(listing.r.items) - reply.offset > reply.cap
                                 THEN reply.cap
                                 ELSE IF Len(listing.r.items) > reply.offset
                                    THEN Len(listing.r.items) - reply.offset
                                 ELSE 0) |->
                        [name |-> listing.r.items[reply.offset + j].name,
                         offset |-> reply.offset + j,
                         kind |-> listing.r.items[reply.offset + j].kind]])

\* a listing of three items was resumed at its second item with room for one
C6_Witness ==
    /\ reply.op = "readdir" /\ reply.ino # FUSE_ROOT_ID /\ reply.status = "ok"
    /\ reply.offset = 1 /\ reply.cap = 1
    /\ Len(reply.items) = 1
    /\ Len(WholeListing(reply.ino).r.items) = 3

\* C8: with the store unchanged, repeating lookup(parent, name) or
\* readdir(ino, 0) returns the same inode for every name as the call before
\* and allocates no new inode, for every store content.
C8_StableInodes ==
    /\ (reply.op = "readdir" /\ reply.status = "ok" /\ reply.offset = 0)
        => With(readdir(entries, db, group_pick, reply.ino, 0,
                        ReplyDirectory(reply.cap)),
                LAMBDA again : /\ again.r.items = reply.items
                               /\ again.e = entries)
    /\ (reply.op = "lookup" /\ reply.status = "entry")
        => With(lookup(entries, db, group_pick, reply.ino, reply.name),
                LAMBDA again : /\ again.ino = reply.out
                               /\ again.e = entries)

\* the store d has a mapping of the tag named n with value v on path p
HasTriple(d, p, n, v) ==
    \E i \in DOMAIN d.TagMapping :
        /\ d.TagMapping[i].path = p
        /\ d.TagMapping[i].value = v
        /\ HasTagRow(d, d.TagMapping[i])
        /\ TagOf(d, d.TagMapping[i]).name = n

\* no two rows of TagMapping have the same tag, value (or absence) and path
TriplesUnique(d) ==
    \A i, j \in DOMAIN d.TagMapping :
        (/\ d.TagMapping[i].tag_id = d.TagMapping[j].tag_id
         /\ d.TagMapping[i].value = d.TagMapping[j].value
         /\ d.TagMapping[i].path = d.TagMapping[j].path) => i = j

\* tag() of a triple the store has is refused and returns the store as it is
RepeatRefused(d) ==
    \A p \in Paths, n \in TagNames, v \in Values :
        HasTriple(d, p, n, v)
            => tag(d, p, n, v) = [ok |-> FALSE, err |-> "already has tag",
                                  db |-> d]

\* a tag() step that reports the duplicate leaves the store as it was
DuplicateChangesNothing ==
    (reply'.op = "tag" /\ reply'.err = "already has tag") => db' = db

\* C11: in every store state reachable by the store commands no two mappings
\* share the same (tag, value-or-absent, path); a manual tag() of a triple
\* the store already has, with a value or without one, fails with the
\* duplicate-tag error and leaves the store unchanged.
C11_TripleUniqueness ==
    /\ [](TriplesUnique(db) /\ RepeatRefused(db))
    /\ [][DuplicateChangesNothing]_vars

\* a tag() without a value was refused as a duplicate of a valueless mapping
C11_Witness ==
    /\ reply.op = "tag"
    /\ reply.err = "already has tag"
    /\ \A i \in DOMAIN db.TagMapping : ~db.TagMapping[i].value.some

\* the answer `after` a tag(): what was there, then what the call created
CreatedLast(before, after) ==
    /\ Len(after) \in {Len(before), Len(before) + 1}
    /\ TakeN(after, Len(before)) = before

\* the answer `after` an untag(): the survivors, in the order they had
SurvivorsInOrder(before, after) ==
    after = SelectSeq(before, LAMBDA x : x \in Range(after))

\* how a tag or untag step changes the two listings
OrderKept ==
    \A n \in TagNames, v \in Values, p \in Paths :
        /\ reply'.op \in {"tag", "autotag"} =>
            /\ CreatedLast(paths_with_tag(db, n, v), paths_with_tag(db', n, v))
            /\ CreatedLast(tags(db, p), tags(db', p))
        /\ reply'.op \in {"untag", "untag_all"} =>
            /\ SurvivorsInOrder(paths_with_tag(db, n, v),
                                paths_with_tag(db', n, v))
            /\ SurvivorsInOrder(tags(db, p), tags(db', p))

\* C12: across tag and untag steps paths_with_tag(tag, v) and tags(path) keep
\* the surviving mappings in the order of the tag() calls that created them:
\* a tag() puts the mapping it creates after all mappings already listed, and
\* an untag() keeps the relative order of the mappings it leaves.
C12_InsertionOrder == [][OrderKept]_vars

\* a tag() has just created a mapping after an older one was removed: the
\* listing of "t" holds the survivor first and the new mapping second
C12_Witness ==
    /\ reply.op = "tag" /\ reply.status = "ok"
    /\ Len(paths_with_tag(db, <<"t">>, None)) = 2
    /\ paths_with_tag(db, <<"t">>, None)[1] = [path |-> PathB, id |-> 2]
    /\ paths_with_tag(db, <<"t">>, None)[2].path = PathA

\* the mapping ids the Link entries of the graph were created for
LinkTargets(e) ==
    {e.attrs[i].target : i \in {j \in DOMAIN e.attrs : e.attrs[j].type = "Link"}}

\* the ids of the rows of TagMapping
MappingIds(d) == {d.TagMapping[i].id : i \in DOMAIN d.TagMapping}

\* the id a step assigns is above the ids of the store and above every id a
\* Link entry was created for (an id assigned before, removed or not)
FreshIdAboveAll ==
    \A id \in MappingIds(db') \ MappingIds(db) :
        \A old \in MappingIds(db) \cup LinkTargets(entries) : old < id

\* C13: a mapping created by a later tag() gets an id strictly greater than
\* every id assigned before, those of removed mappings included, so that the
\* mapping id a Link entry holds never comes to denote another mapping.
C13_MonotonicIds == [][FreshIdAboveAll]_vars

\* the mapping r of store d is one that untag(p, n, v) is to remove
UntagTarget(d, r, p, n, v) ==
    /\ r.path = p
    /\ HasTagRow(d, r) /\ TagOf(d, r).name = n
    /\ v.some => r.value = v

\* untag leaves exactly the mappings that are not its targets, as they were
\* and in the order they had; it fails iff it has no target
UntagExact(d) ==
    \A p \in Paths, n \in TagNames, v \in Values :
        With(untag(d, p, n, v), LAMBDA res :
            /\ res.db.TagMapping =
                SelectSeq(d.TagMapping, LAMBDA r : ~UntagTarget(d, r, p, n, v))
            /\ res.ok <=> \E i \in DOMAIN d.TagMapping :
                            UntagTarget(d, d.TagMapping[i], p, n, v))

\* untag_all leaves exactly the mappings of the other paths
UntagAllExact(d) ==
    \A p \in Paths :
        With(untag_all(d, p), LAMBDA res :
            /\ res.db.TagMapping = SelectSeq(d.TagMapping, LAMBDA r : r.path # p)
            /\ res.ok <=> \E i \in DOMAIN d.TagMapping : d.TagMapping[i].path = p)

\* C14: on every reachable store untag(path, t, Some(v)) removes exactly the
\* mapping (path, t, v), untag(path, t, None) exactly the mappings of t on
\* path whatever their value, untag_all(path) exactly the mappings on path;
\* all other mappings stay as they were, in the same relative order.
C14_UntagFrame == UntagExact(db) /\ UntagAllExact(db)

\* an untag has removed a mapping and left the mapping of the same tag on the
\* same path that has the other value
C14_Witness ==
    /\ reply.op = "untag" /\ reply.status = "ok"
    /\ Len(db.TagMapping) = 1
    /\ db.TagMapping[1].id = 2
    /\ db.TagMapping[1].path = PathA
    /\ db.TagMapping[1].value = Some(<<"X">>)
    /\ db.Tag = <<[id |-> 1, name |-> <<"t">>, takes_value |-> TRUE]>>

\* the path prefix_change(old, new) is to leave in place of `path`
Reprefixed(path, old, new) ==
    IF StartsWith(path, old) THEN new \o DropN(path, Len(old)) ELSE path

\* C15: a prefix_change(old, new) that succeeds rewrites exactly the mappings
\* whose path begins with old, each path becoming new followed by the rest of
\* the path after the leading old (later occurrences of old are left as they
\* are); every other mapping, and every other column, is unchanged.
C15_PrefixOnly ==
    \A pair \in Prefixes :
        With(prefix_change(db, pair[1], pair[2]), LAMBDA res :
            res.ok => res.db.TagMapping =
                [i \in DOMAIN db.TagMapping |->
                    [db.TagMapping[i] EXCEPT
                        !.path = Reprefixed(@, pair[1], pair[2])]])

(***************************************************************************)
(* Properties of the query engine, checked under SpecQuery.                *)
(***************************************************************************)
\* the formulas the query texts stand for: atoms, and the connectives as the
\* grammar binds them (not before and, and before or, parentheses first)
QAtom(t, op, v) == [node |-> "atom", tag |-> t, op |-> op, value |-> v]
QNeg(f) == [node |-> "not", l |-> f]
QConj(f, g) == [node |-> "and", l |-> f, r |-> g]
QDisj(f, g) == [node |-> "or", l |-> f, r |-> g]

Formula(text) ==
    CASE text = QLoneTag -> QAtom(<<"t">>, "", <<>>)
      [] text = QLoneTagUpper -> QAtom(<<"T">>, "", <<>>)
      [] text = QStrictLower -> QAtom(<<"t">>, "==", <<"x">>)
      [] text = QStrictUpper -> QAtom(<<"t">>, "==", <<"X">>)
      [] text = QSubstring -> QAtom(<<"t">>, "=", <<"x">>)
      [] text = QSubstringUpper -> QAtom(<<"t">>, "=", <<"X">>)
      [] text = QWildcard -> QAtom(<<"t">>, "=", <<"%">>)
      [] text = QLess -> QAtom(<<"t">>, "<", <<"x">>)
      [] text = QGreater -> QAtom(<<"t">>, ">", <<"x">>)
      [] text = QOtherStrict -> QAtom(<<"u">>, "==", <<"y">>)
      [] text = QPrecedence ->
            QDisj(QAtom(<<"t">>, "==", <<"x">>),
                  QConj(QNeg(QAtom(<<"u">>, "", <<>>)),
                        QAtom(<<"t">>, "==", <<"y">>)))
      [] text = QParens ->
            QConj(QDisj(QAtom(<<"t">>, "==", <<"x">>),
                        QNeg(QAtom(<<"u">>, "", <<>>))),
                  QAtom(<<"t">>, "==", <<"y">>))
      [] text = QNot -> QNeg(QAtom(<<"u">>, "", <<>>))

GoodQueries == QueryTexts \ { QNoConnective, QNoValue, QNoTag }

\* s without regard to the case of its letters
Folded(s) == [i \in DOMAIN s |-> ToLower(s[i])]

\* sub occurs in s
Contains(s, sub) ==
    \E k \in 0..(Len(s) - Len(sub)) : SubSeq(s, k + 1, k + Len(sub)) = sub

\* the mapping r of store d matches the atom a
AtomMatches(d, r, a, case_sensitive) ==
    With(TagOf(d, r).name, LAMBDA name :
        CASE a.op = "" -> IF case_sensitive THEN name = a.tag
                          ELSE Folded(name) = Folded(a.tag)
          [] a.op = "==" -> /\ name = a.tag /\ r.value.some
                            /\ IF case_sensitive THEN r.value.v = a.value
                               ELSE Folded(r.value.v) = Folded(a.value)
          [] a.op = "=" -> /\ name = a.tag /\ r.value.some
                           /\ Contains(Folded(r.value.v), Folded(a.value))
          [] a.op = "<" -> /\ name = a.tag /\ r.value.some
                           /\ StrLess(r.value.v, a.value)
          [] a.op = ">" -> /\ name = a.tag /\ r.value.some
                           /\ StrLess(a.value, r.value.v))

\* the formula f is true of the path p in store d
RECURSIVE TrueOf(_, _, _, _)
TrueOf(d, p, f, case_sensitive) ==
    CASE f.node = "atom" ->
            \E i \in DOMAIN d.TagMapping :
                /\ d.TagMapping[i].path = p
                /\ AtomMatches(d, d.TagMapping[i], f, case_sensitive)
      [] f.node = "not" -> ~TrueOf(d, p, f.l, case_sensitive)
      [] f.node = "and" -> /\ TrueOf(d, p, f.l, case_sensitive)
                           /\ TrueOf(d, p, f.r, case_sensitive)
      [] f.node = "or" -> \/ TrueOf(d, p, f.l, case_sensitive)
                          \/ TrueOf(d, p, f.r, case_sensitive)

\* the paths of the rows a query answered
AnsweredPaths == {reply.items[i].path : i \in DOMAIN reply.items}

\* C16: query(text) answers exactly the stored paths of which the boolean
\* formula of the text is true, an atom being true of a path iff the path
\* itself has a mapping that matches it, with not binding before and, and
\* before or, and parentheses overriding: 't==x or not u and t==y' is
\* (t==x) or ((not u) and (t==y)).
C16_QueryFormula ==
    (reply.op = "query" /\ reply.name \in GoodQueries) =>
        /\ reply.status = "ok"
        /\ AnsweredPaths =
            {p \in {db.TagMapping[i].path : i \in DOMAIN db.TagMapping} :
                TrueOf(db, p, Formula(reply.name), reply.flag)}

\* 't==x or not u and t==y' was asked of the store where /a/f has t=x and u
\* and /b/f has t=y: both paths are answered, the first for its left atom
C16_Witness ==
    /\ reply.op = "query" /\ reply.name = QPrecedence /\ reply.flag
    /\ AnsweredPaths = {PathA, PathB}
    /\ \E i \in DOMAIN db.TagMapping :
            db.TagMapping[i].path = PathA /\ TagOf(db, db.TagMapping[i]).name = <<"u">>

\* the ids of the mappings of path p
IdsOfPath(d, p) ==
    {d.TagMapping[i].id : i \in {j \in DOMAIN d.TagMapping : d.TagMapping[j].path = p}}

\* the id of the mapping that tagged p first (the stores queried are built by
\* tag() alone, which numbers the mappings in the order of the calls)
FirstTagged(d, p) ==
    CHOOSE id \in IdsOfPath(d, p) : \A other \in IdsOfPath(d, p) : id <= other

ValuesOn(d, p, t) ==
    {d.TagMapping[i].value.v :
        i \in {j \in DOMAIN d.TagMapping :
                /\ d.TagMapping[j].path = p
                /\ d.TagMapping[j].value.some
                /\ TagOf(d, d.TagMapping[j]).name = t}}

\* the paths of the store
PathsOf(d) == {d.TagMapping[i].path : i \in DOMAIN d.TagMapping}

\* the value the strict-equals and substring texts ask for
AskedValue(text) ==
    IF text \in {QStrictLower, QSubstring} THEN <<"x">> ELSE <<"X">>

\* C18: 't == v' without the case-sensitive flag answers the paths with a
\* mapping of t whose value equals v ignoring letter case, with the flag only
\* those whose value is v exactly (so nothing when v differs from every
\* stored value by case only); 't = v' answers the paths with a value of t
\* that contains v ignoring letter case, under both settings of the flag.
C18_CaseFlag ==
    reply.op = "query" =>
        /\ reply.name \in {QStrictLower, QStrictUpper} =>
            /\ reply.status = "ok"
            /\ AnsweredPaths =
                {p \in PathsOf(db) :
                    \E v \in ValuesOn(db, p, <<"t">>) :
                        IF reply.flag THEN v = AskedValue(reply.name)
                        ELSE Folded(v) = Folded(AskedValue(reply.name))}
        /\ reply.name \in {QSubstring, QSubstringUpper} =>
            /\ reply.status = "ok"
            /\ AnsweredPaths =
                {p \in PathsOf(db) :
                    \E v \in ValuesOn(db, p, <<"t">>) :
                        Contains(Folded(v), Folded(AskedValue(reply.name)))}

\* 't == X' was asked without the flag of a store whose only value of t is
\* "x": the path with that value is answered
C18_Witness ==
    /\ reply.op = "query" /\ reply.name = QStrictUpper /\ ~reply.flag
    /\ \A p \in PathsOf(db) : ValuesOn(db, p, <<"t">>) \subseteq {<<"x">>}
    /\ AnsweredPaths = {PathA}

\* texts that are not queries: two atoms without a connective, a comparison
\* operator without a value after it, a value without a tag before its
\* operator
BadQueries == { QNoConnective, QNoValue, QNoTag }

\* C19: query(text) fails with the "invalid query" error when a comparison
\* operator is not followed by a value, when a value comes without a tag and
\* operator before it, and when the store rejects the translated expression;
\* lookup of such a text in the query directory replies ENOENT.
C19_InvalidQuery ==
    /\ (reply.op = "query" /\ reply.name \in BadQueries) =>
            reply.status = "err" /\ reply.err = "invalid query."
    /\ (/\ reply.op = "lookup" /\ reply.name \in BadQueries
        /\ entries.attrs[reply.ino].type = "QueryDir") =>
            reply.status = "ENOENT"

\* the kinds of the tokens of a text, in order
TokenKinds(text) ==
    With(lex_query(text), LAMBDA tokens :
        [i \in DOMAIN tokens |-> tokens[i].kind])

\* the user's text in the tokens, in order: the tag names and the values (a
\* value of the substring operator with its % and _ escaped)
RECURSIVE UserTexts(_, _)
UserTexts(tokens, i) ==
    IF i > Len(tokens) THEN <<>>
    ELSE IF tokens[i].kind = "Tag" THEN <<tokens[i].text>> \o UserTexts(tokens, i + 1)
    ELSE IF tokens[i].kind = "Value"
        THEN <<IF i > 1 /\ tokens[i - 1].kind = "Equals"
               THEN EscapeLike(tokens[i].text) ELSE tokens[i].text>>
             \o UserTexts(tokens, i + 1)
    ELSE UserTexts(tokens, i + 1)

\* the constant pieces to_sql builds the SQL text from
SqlPartials ==
    {"STRICT_EQ_VALUE", "STRICT_EQ_VALUE_CASE_SENS", "EQ", "EQ_CASE_SENS",
     "EQ_VALUE", "LT_VALUE", "GT_VALUE", " AND ", " OR ", " NOT ", " ( ", " ) "}

\* the number of placeholders of an SQL text
RECURSIVE PlaceholderCount(_)
PlaceholderCount(sql) ==
    IF sql = <<>> THEN 0 ELSE Placeholders(sql[1]) + PlaceholderCount(Tail(sql))

\* C20: the SQL text to_sql builds consists of constant pieces only and is
\* the same for any two texts whose tokens have the same kinds in the same
\* order (under the same case flag), whatever their tag names and values;
\* the tag names and values are the bound parameters, in order, one for each
\* placeholder of the SQL text.
C20_BoundParameters ==
    reply.op = "query" =>
        /\ Range(reply.sql) \subseteq SqlPartials
        /\ \A other \in QueryTexts :
                TokenKinds(other) = TokenKinds(reply.name)
                    => to_sql(lex_query(other), reply.flag).sql = reply.sql
        /\ to_sql(lex_query(reply.name), reply.flag).ok =>
                /\ reply.params = UserTexts(lex_query(reply.name), 1)
                /\ Len(reply.params) = PlaceholderCount(reply.sql)

\* 't == X' was translated: one constant piece, the tag name and the value
\* bound; 't==x' has the same token kinds
C20_Witness ==
    /\ reply.op = "query" /\ reply.name = QStrictUpper /\ ~reply.flag
    /\ reply.sql = <<"STRICT_EQ_VALUE">>
    /\ reply.params = << <<"t">>, <<"X">> >>
    /\ TokenKinds(QStrictLower) = TokenKinds(reply.name)

(***************************************************************************)
(* Display names (fs.rs, sanitise_path and sanitise_value)                 *)
(***************************************************************************)
\* the paths readdir_files hands to sanitise_path for the directory inode:
\* the mappings of the tag of a TagDir, of the tag and value of a ValueDir
ListedPaths(inode) ==
    With(IF entries.attrs[inode].type = "ValueDir"
         THEN paths_with_tag(db, get_parent_tag(entries, inode).tag,
                             Some(get_tag_value(entries, inode).value))
         ELSE paths_with_tag(db, get_name(entries, inode).name, None),
         LAMBDA children : [i \in 1..Len(children) |-> children[i].path])

\* sanitise_path applied to each index of the list
DisplayNames(paths) ==
    [i \in 1..Len(paths) |-> sanitise_path(paths[i], i - 1, paths)]

\* the directory lists links: a ValueDir, or a TagDir of a tag without values
ListsLinks(inode) ==
    \/ entries.attrs[inode].type = "ValueDir"
    \/ /\ entries.attrs[inode].type = "TagDir"
       /\ With(get_tag(db, get_name(entries, inode).name), LAMBDA got :
                got.found /\ ~got.tag.takes_value)

\* C21: for any list of paths handed to one directory listing, the display
\* names sanitise_path produces for the indices of the list are pairwise
\* distinct, also when some basename already ends in ".<n>".
C21_DistinctNames ==
    (reply.op = "readdir" /\ ListsLinks(reply.ino))
        => With(DisplayNames(ListedPaths(reply.ino)), LAMBDA names :
                \A i, j \in DOMAIN names :
                    (names[i].ok /\ names[j].ok /\ names[i].name = names[j].name)
                        => i = j)

\* some sibling at another index of the list has the basename of index i
SharesBasename(paths, i) ==
    \E j \in DOMAIN paths :
        j # i /\ basename(paths[j]).name = basename(paths[i]).name

\* the display name of index i (1-based here, 0-based in the name)
ExpectedName(paths, i) ==
    IF SharesBasename(paths, i)
    THEN basename(paths[i]).name \o <<".">> \o Decimal(i - 1)
    ELSE basename(paths[i]).name

LinkedIds(e, inode) ==
    With(readdir(e, db, group_pick, inode, 0, ReplyDirectory(MaxWalkInode)),
         LAMBDA sub :
            { sub.e.attrs[sub.r.items[k].ino].target :
                k \in { j \in DOMAIN sub.r.items :
                            sub.e.attrs[sub.r.items[j].ino].type = "Link" } })

\* item is the value directory of value v of the tag named n, and lists the
\* links of the mappings (n, v)
IsValueDirOf(e, item, n, v) ==
    /\ item.name = sanitise_value(v)
    /\ item.kind = "Directory"
    /\ e.attrs[item.ino].type = "ValueDir"
    /\ e.attrs[item.ino].value = v
    /\ e.attrs[item.ino].tag = n
    /\ With(paths_with_tag(db, n, Some(v)), LAMBDA ms :
            LinkedIds(e, item.ino) = { ms[i].id : i \in DOMAIN ms })

\* the directory inode is the TagDir of a tag that takes values now
ListsValues(inode) ==
    /\ entries.attrs[inode].type = "TagDir"
    /\ With(get_tag(db, get_name(entries, inode).name), LAMBDA got :
            got.found /\ got.tag.takes_value)

\* C23: for a TagDir whose tag currently takes values, readdir yields for
\* each distinct value v of the tag one child named sanitise_value(v) whose
\* entry is a ValueDir holding v and the tag, and listing that child yields
\* links for exactly the mappings (tag, v), in every reachable state.
C23_ValueDirs ==
    (reply.op = "readdir" /\ ListsValues(reply.ino))
        => With(get_name(entries, reply.ino).name, LAMBDA n :
            With(WholeListing(reply.ino), LAMBDA listing :
                /\ ~listing.panic
                /\ values(db, n).ok
                /\ Len(listing.r.items) = Len(values(db, n).values)
                /\ \A i \in DOMAIN listing.r.items :
                        IsValueDirOf(listing.e, listing.r.items[i], n,
                                     values(db, n).values[i])))

(***************************************************************************)
(* The query directory (fs.rs, readdir_query_dir and lookup)               *)
(***************************************************************************)
\* the display names of the stored queries of the store
StoredDisplayNames(d) ==
    { StoredQueryDisplay(stored_queries(d)[i].name, stored_queries(d)[i].query) :
        i \in DOMAIN stored_queries(d) }

\* C24: readdir on the QueryDir lists exactly the stored queries persisted
\* in the store at the time, one QueryResultDir per stored query named
\* "<name> @ [<query>]": nothing when no query is stored, and what
\* create_stored_query and delete_stored_query did while mounted.
C24_StoredListed ==
    (reply.op = "readdir" /\ entries.attrs[reply.ino].type = "QueryDir")
        => With(WholeListing(reply.ino), LAMBDA listing :
                /\ ~listing.panic
                /\ { listing.r.items[k].name : k \in DOMAIN listing.r.items }
                        = StoredDisplayNames(db)
                /\ \A k \in DOMAIN listing.r.items :
                        listing.e.attrs[listing.r.items[k].ino].type
                            = "QueryResultDir")

\* the query a name under the QueryDir stands for: the text of the stored
\* query that readdir lists under this display name, the name itself
\* otherwise
StandsFor(name) ==
    IF \E i \in DOMAIN HardcodedStoredQueries :
            HardcodedStoredQueries[i].name = name
    THEN (CHOOSE q \in Range(HardcodedStoredQueries) : q.name = name).query
    ELSE name

\* a lookup under the QueryDir was answered with an entry
QueryDirEntry ==
    /\ reply.op = "lookup" /\ reply.status = "entry"
    /\ entries.attrs[reply.ino].type = "QueryDir"

\* the entry answered is the one the name is bound to, it holds the query
\* the name stands for, and the lookup repeated answers the same inode
SameQuerySameInode ==
    QueryDirEntry
        => /\ entries.names[<<reply.ino, reply.name>>] = reply.out
           /\ entries.attrs[reply.out].type = "QueryResultDir"
           /\ entries.attrs[reply.out].query = StandsFor(reply.name)
           /\ lookup(entries, db, group_pick, reply.ino, reply.name).ino
                = reply.out

\* no step binds a name under the QueryDir to another inode or attaches
\* another query to its inode
QueryNamesKept ==
    \A key \in DOMAIN entries.names :
        entries.attrs[key[1]].type = "QueryDir"
            => /\ key \in DOMAIN entries'.names
               /\ entries'.names[key] = entries.names[key]
               /\ entries'.attrs[entries.names[key]].query
                    = entries.attrs[entries.names[key]].query

TagLine(d, mapping) ==
    IF mapping.value.some
    THEN TagOf(d, mapping).name \o <<"=">> \o mapping.value.v \o <<"\n">>
    ELSE TagOf(d, mapping).name \o <<"\n">>

\* the lines of the mappings of path p from row i of the store on, in the
\* order of insertion
RECURSIVE ContentFrom(_, _, _)
ContentFrom(d, p, i) ==
    IF i > Len(d.TagMapping) THEN <<>>
    ELSE (IF d.TagMapping[i].path = p THEN TagLine(d, d.TagMapping[i])
          ELSE <<>>) \o ContentFrom(d, p, i + 1)

\* the content of the tags file of inode against the store of this state
Content(inode) == ContentFrom(db, entries.attrs[inode].path, 1)

\* the rows of the store are in the order of their ids
RowsInIdOrder(d) ==
    \A i, j \in DOMAIN d.TagMapping :
        i < j => d.TagMapping[i].id < d.TagMapping[j].id

\* C26: the content served by read on an AllTagsTerminal is computed from
\* the store at the time of the read: one line per mapping of the terminal's
\* original path, "tag\n" or "tag=value\n", in the order of insertion; what
\* was tagged or untagged after the terminal was materialised shows in the
\* next read.
C26_ReadContent ==
    /\ RowsInIdOrder(db)
    /\ reply.op = "read"
        => /\ reply.status = "data"
                => /\ reply.data # <<>>
                   /\ StartsWith(DropN(Content(reply.ino), reply.offset),
                                 reply.data)
                   /\ \/ Len(reply.data) >= reply.size
                      \/ Len(reply.data)
                            = Len(Content(reply.ino)) - reply.offset
           /\ reply.status # "data"
                => reply.offset >= Len(Content(reply.ino))

\* a tags file was read from its start when its path had a mapping with a
\* value and a mapping without one
C26_Witness ==
    /\ reply.op = "read" /\ reply.status = "data" /\ reply.offset = 0
    /\ With(tags(db, entries.attrs[reply.ino].path), LAMBDA ms :
            /\ Len(ms) = 2
            /\ ms[1].value.some # ms[2].value.some)

\* the bytes [offset, min(offset + size, L)) of a buffer of length L
Slice(buf, offset, size) ==
    SubSeq(buf, offset + 1,
           IF offset + size < Len(buf) THEN offset + size ELSE Len(buf))

\* C27: read(ino, offset, size) on an AllTagsTerminal whose content has
\* length L replies once, with the bytes [offset, min(offset + size, L)) of
\* the content, never more than size bytes, and with empty data when
\* offset >= L.
C27_ReadWindow ==
    reply.op = "read"
        => /\ reply.status = "data"
           /\ Len(reply.data) <= reply.size
           /\ reply.data = Slice(Content(reply.ino), reply.offset, reply.size)

(***************************************************************************)
(* The "tags" hierarchy (fs.rs, readdir_all_tags)                          *)
(***************************************************************************)
\* the stored paths that begin with the prefix P and go on after it
PathsUnder(P) ==
    { p \in { db.TagMapping[i].path : i \in DOMAIN db.TagMapping } :
        StartsWith(p, P) /\ Len(p) > Len(P) }

\* path p has a "/" after the prefix P
GoesOn(p, P) == FindChar(DropN(p, Len(P)), "/") >= 0

\* the path component of p that follows the prefix P
NextComponent(p, P) ==
    IF GoesOn(p, P)
    THEN TakeN(DropN(p, Len(P)), FindChar(DropN(p, Len(P)), "/"))
    ELSE DropN(p, Len(P))

\* the children of the directory of prefix P: a directory per component
\* that goes on, a tags file per path that ends with its component
ExpectedChildren(P) ==
    { [name |-> NextComponent(p, P), kind |-> "Directory",
       type |-> "AllTagsIntermediate",
       path |-> P \o NextComponent(p, P) \o <<"/">>] :
            p \in { q \in PathsUnder(P) : GoesOn(q, P) } }
    \cup
    { [name |-> NextComponent(p, P) \o <<".", "t", "a", "g", "s">>,
       kind |-> "RegularFile", type |-> "AllTagsTerminal", path |-> p] :
            p \in { q \in PathsUnder(P) : ~GoesOn(q, P) } }

\* what readdir(inode, 0) lists is the expected children, each once, in the
\* order of their names
ListsExpected(inode) ==
    With(WholeListing(inode), LAMBDA listing :
        /\ ~listing.panic
        /\ { [name |-> listing.r.items[k].name,
              kind |-> listing.r.items[k].kind,
              type |-> listing.e.attrs[listing.r.items[k].ino].type,
              path |-> listing.e.attrs[listing.r.items[k].ino].path] :
                k \in DOMAIN listing.r.items }
            = ExpectedChildren(get_path(entries, inode).path)
        /\ Len(listing.r.items)
            = Cardinality(ExpectedChildren(get_path(entries, inode).path))
        /\ \A j, k \in DOMAIN listing.r.items :
                j < k => StrLess(listing.r.items[j].name,
                                 listing.r.items[k].name))

\* C28: readdir on an AllTags directory whose accumulated prefix is P lists,
\* in sorted name order, exactly one child per distinct next path component
\* of the stored paths beginning with P: an AllTagsIntermediate of prefix
\* P + component + "/" when more of the path follows, an AllTagsTerminal
\* named "<basename>.tags" holding the whole path when not.
C28_AllTagsListing ==
    \A inode \in DOMAIN entries.attrs :
        entries.attrs[inode].type \in {"AllTagsDir", "AllTagsIntermediate"}
            => ListsExpected(inode)

(***************************************************************************)
(* Tags as text (db/query.rs, lex_query, from_str and the formatters)      *)
(***************************************************************************)
\* C29: for every tag name and optional value the store accepts, parsing
\* the text EscapedTagFormatter prints with TagValuePair::from_str succeeds
\* and returns the same tag and the same value: None for a valueless tag,
\* the exact string for a valued one.
C29_RoundTrip ==
    reply.op = "from_str"
        => /\ reply.status = "ok"
           /\ reply.items[1].tag = reply.name
           /\ reply.items[1].value = reply.params[1]

\* the token of a bare word: the boolean token of a reserved word in any
\* letter case, a Tag token of any other word
WordTokenAnyCase(w) ==
    IF LowerStr(w) = <<"a", "n", "d">> THEN Tok("And")
    ELSE IF LowerStr(w) = <<"o", "r">> THEN Tok("Or")
    ELSE IF LowerStr(w) = <<"n", "o", "t">> THEN Tok("Not")
    ELSE TagTok(w)

\* C30: the lexer recognises the reserved words and, or, not without regard
\* to letter case: a bare run equal to one of them in any letter case
\* becomes the token And, Or or Not, and every other bare run a Tag token.
C30_ReservedWords ==
    reply.op = "lex"
        => reply.items = << WordTokenAnyCase(reply.params[1]),
                            WordTokenAnyCase(reply.params[2]) >>

(***************************************************************************)
(* The edit representation (db.rs, from_edit_repr; db/edit_repr.rs)        *)
(***************************************************************************)
\* the mappings of a store: path, tag name, value and auto of every row
MappingSet(d) ==
    { [path |-> d.TagMapping[i].path, tag |-> TagOf(d, d.TagMapping[i]).name,
       value |-> d.TagMapping[i].value, auto |-> d.TagMapping[i].auto] :
        i \in { j \in DOMAIN d.TagMapping : HasTagRow(d, d.TagMapping[j]) } }

\* C31: from_edit_repr validates the whole input before it clears the
\* store: whenever it returns an error, the mappings of the store are those
\* of before the call, neither cleared nor partly re-inserted.
C31_EditAtomic ==
    [][(reply'.op = "from_edit_repr" /\ reply'.status = "err")
            => MappingSet(db') = MappingSet(db)]_vars

\* C32: ingesting the text the store printed, unmodified, restores the same
\* (path, tag, value, auto) mappings: a tag line is automatic only below
\* the --AUTO-- line of its own block.
C32_EditRoundTrip ==
    [][(reply'.op = "edit" /\ reply'.flag)
            => (reply'.status = "ok" /\ MappingSet(db') = MappingSet(db))]_vars

(* The entry graph as a tree (entries.rs) *)
\* the (parent, name) keys of the child index that lead to an inode
KeysOf(e, inode) == { k \in DOMAIN e.names : e.names[k] = inode }

\* C33: the entry graph is a tree rooted at Root: Root is in the inode map,
\* the child index leads only to inodes of the inode map, and every entry
\* but Root is the target of exactly one (parent, name) key.
C33_EntryTree ==
    /\ FUSE_ROOT_ID \in DOMAIN entries.attrs
    /\ entries.attrs[FUSE_ROOT_ID].type = "Root"
    /\ \A k \in DOMAIN entries.names : entries.names[k] \in DOMAIN entries.attrs
    /\ \A inode \in DOMAIN entries.attrs \ {FUSE_ROOT_ID} :
            Cardinality(KeysOf(entries, inode)) = 1

(* Links and the mappings they stand for (fs.rs, readdir_files,            *)
(* readdir_query; entries.rs, try_get_link_inode)                          *)
\* the (path, id) rows the listing of the directory inode loops over
ListedRows(inode) ==
    IF entries.attrs[inode].type = "QueryResultDir"
    THEN query(db, get_query(entries, inode).query, FALSE, group_pick).rows
    ELSE IF entries.attrs[inode].type = "ValueDir"
    THEN paths_with_tag(db, get_parent_tag(entries, inode).tag,
                        Some(get_tag_value(entries, inode).value))
    ELSE paths_with_tag(db, get_name(entries, inode).name, None)

\* an entry of the inode map that the child index no longer leads to, which
\* had the name the listing now gives to the inode
EarlierLink(name, inode) ==
    \E old \in DOMAIN entries.attrs :
        /\ old # inode
        /\ entries.attrs[old].type = "Link"
        /\ entries.attrs[old].name = name
        /\ entries.attrs[old].target # entries.attrs[inode].target
        /\ KeysOf(entries, old) = {}

HasMapping(d, id) == \E i \in DOMAIN d.TagMapping : d.TagMapping[i].id = id

\* C35: whenever a lookup succeeds with the inode of a Link, the store
\* holds a mapping with the Link's mapping id, so that a readlink issued
\* right after the lookup finds its target.
C35_LookupLiveLink ==
    (/\ reply.op = "lookup" /\ reply.status = "entry"
     /\ entries.attrs[reply.out].type = "Link")
        => /\ HasMapping(db, entries.attrs[reply.out].target)
           /\ readlink(entries, db, reply.out).ok

(* Directories of tags that left the store (fs.rs, readdir_helper) *)
\* C36: a readdir of a TagDir that was materialised earlier, and a lookup
\* that preloads it, complete with a reply (a listing, or ENOENT) and never
\* terminate the process, also after the last mapping of the tag was removed.
C36_StaleTagDir ==
    /\ (reply.op = "readdir" /\ entries.attrs[reply.ino].type = "TagDir")
            => (alive /\ reply.status = "ok")
    /\ (reply.op = "lookup" /\ HasChild(entries, reply.ino, reply.name)
        /\ entries.attrs[entries.names[<<reply.ino, reply.name>>]].type = "TagDir")
            => (alive /\ reply.status \in {"entry", "ENOENT"})

(* Prefix matching (db.rs, paths_with_prefix) *)
\* C37: paths_with_prefix(P) returns only paths that begin with P character
\* for character, so that the listing of an AllTags directory never meets a
\* path without its prefix (and never panics over it).
C37_PrefixExact ==
    \A inode \in DOMAIN entries.attrs :
        entries.attrs[inode].type \in {"AllTagsDir", "AllTagsIntermediate"}
            => With(get_path(entries, inode).path, LAMBDA P :
                    /\ \A p \in Range(paths_with_prefix(db, P)) : StartsWith(p, P)
                    /\ ~readdir_all_tags(entries, db, inode, 0, NoReply).panic)

(* The names of the root directory (fs.rs, readdir_root, lookup_root_child) *)
\* the type of the entry listed at a position of the root directory
RootKind(position) ==
    IF position = 1 THEN "QueryDir"
    ELSE IF position = 2 THEN "AllTagsDir" ELSE "TagDir"

\* C38: the names readdir lists on Root are pairwise distinct, and each
\* resolves through lookup to the entry of the kind it was listed as, also
\* in a store with a tag named "?" or "tags".
C38_RootNames ==
    With(WholeListing(FUSE_ROOT_ID), LAMBDA listing :
        /\ ~listing.panic
        /\ \A j, k \in DOMAIN listing.r.items :
                listing.r.items[j].name = listing.r.items[k].name => j = k
        /\ \A k \in DOMAIN listing.r.items :
                With(lookup_root_child(listing.e, db, FUSE_ROOT_ID,
                                       listing.r.items[k].name), LAMBDA res :
                    /\ res.some
                    /\ res.ino = listing.r.items[k].ino
                    /\ res.e.attrs[res.ino].type = RootKind(k)))

(* Lookups of invalid queries (fs.rs, lookup under the QueryDir) *)
\* C39: a lookup under the QueryDir that is answered ENOENT because the
\* query is invalid leaves the entry graph as it was: no inode is
\* allocated and no child is added.
C39_InvalidQueryNoEntry ==
    [][(/\ reply'.op = "lookup" /\ reply'.status = "ENOENT"
        /\ reply'.ino \in DOMAIN entries.attrs
        /\ entries.attrs[reply'.ino].type = "QueryDir")
            => entries' = entries]_vars

(* The accessors of the entry graph (entries.rs) *)
\* C40: every read accessor terminates the process on an inode that is not
\* in the graph, and every accessor of one variant terminates the process on
\* an entry of another variant; none of them answers with an absent value.
C40_AccessorsFatal ==
    \A inode \in 0..(MaxInode + 1) :
        IF inode \notin DOMAIN entries.attrs
        THEN /\ ~get_attr(entries, inode).ok
             /\ ~get_name(entries, inode).ok
             /\ ~get_type(entries, inode).ok
             /\ ~get_parent_tag(entries, inode).ok
             /\ ~get_tag_value(entries, inode).ok
             /\ ~get_link_target(entries, inode).ok
             /\ ~get_query(entries, inode).ok
             /\ ~get_path(entries, inode).ok
        ELSE With(entries.attrs[inode].type, LAMBDA type :
             /\ type # "ValueDir" => /\ ~get_parent_tag(entries, inode).ok
                                     /\ ~get_tag_value(entries, inode).ok
             /\ type # "Link" => ~get_link_target(entries, inode).ok
             /\ type # "QueryResultDir" => ~get_query(entries, inode).ok
             /\ type \notin {"AllTagsDir", "AllTagsIntermediate",
                             "AllTagsTerminal"}
                    => ~get_path(entries, inode).ok)

=============================================================================
